---- MODULE Spec2Model ----
(***************************************************************************)
(* Branded Table Generator (src/app.py): the Streamlit session state, the  *)
(* confirm-snapshot step and the GitHub publishing workflow.               *)
(*                                                                         *)
(* One UI event = one rerun of the script; every UI action below therefore *)
(* contains the whole rerun, including the "Get Embed Script" tab that     *)
(* recomputes the token, the destination existence check and can_publish.  *)
(* A publish invocation (the publish_clicked block) is a sequence of       *)
(* blocking provider calls; it is split at the calls, one action per call. *)
(***************************************************************************)
EXTENDS Integers, Sequences, FiniteSets, TLC

\* ----------------------------------------------------------------- bounds
MaxData   == 2      \* distinct CSV contents 1..MaxData
MaxPolls  == 1      \* liveness polls that fit into the timeout

Data     == 1..MaxData
\* names of the uploaded CSV files; only "same as before or not" matters
CsvNames == {"one.csv", "two.csv"}
\* values of the draft setting "Table Title"; "Table 1" is the default
Titles   == {"Table 1", "Table 2"}

\* table names the user may type; "" is the empty text input
TableNameWords == {"", "a"}
FileNames      == {"a.html"}

\* --------------------------------------------------------------- values
\* HTML documents.  kind "empty" is the empty string, "table" a rendered
\* table, "old" a page that was in the repository before this session and
\* "other" the page another session publishes.
EmptyStr  == [kind |-> "empty", df |-> 0, title |-> ""]
NoFile    == [kind |-> "nofile", df |-> 0, title |-> ""]
OldHtml   == [kind |-> "old", df |-> 0, title |-> ""]
OtherHtml == [kind |-> "other", df |-> 0, title |-> ""]

NoDf   == 0
NoCfg  == [title |-> ""]
NoSha  == [blob |-> NoFile]
NoResp == [status |-> -1, sha |-> NoSha]
NoUrl  == <<>>
NoReq  == [path |-> "", content |-> EmptyStr, has_sha |-> FALSE, sha |-> NoSha]
NoCreateReq == [name |-> "", auto_init |-> FALSE, private |-> FALSE]
NoPagesReq  == [branch |-> "", path |-> ""]

PUBLISH_OWNER == "bettercollective26"
REPO_NAME     == "ActionNetworktj26"

VARIABLES
  \* ---- secrets (module level constants of one deployment)
  GITHUB_PAT,            \* TRUE iff a personal token is configured
  app_installed,         \* TRUE iff GitHub App credentials + installation exist
  \* ---- st.session_state and the uploader widget
  bt_uploaded_name,      \* "" = key absent
  bt_df_uploaded,
  bt_df_confirmed,
  bt_widget_title,       \* the draft setting
  bt_confirmed_cfg,
  bt_html_code,
  bt_html_generated,
  bt_last_published_url,
  bt_iframe_code,
  bt_allow_swap,
  bt_table_name_words,
  \* ---- values computed by the last rerun of the embed tab
  installation_token,    \* "", "pat" or "inst"
  file_exists,
  can_publish,
  live_preview_html,
  \* ---- the hosting provider
  repo_exists,
  pages_enabled,
  gh_files,              \* [FileNames -> content or NoFile]
  \* ---- the running publish invocation (locals of the publish_clicked block)
  pc,
  calls,                 \* provider calls of this script run, in order
  html_final,
  get_resp,              \* answer to the contents GET of upload_file_to_github
  sha,                   \* local sha of upload_file_to_github
  put_req,               \* payload of the contents PUT of this run
  create_req,            \* payload of the repository create POST of this run
  pages_req,             \* payload of the Pages enable POST of this run
  polls,
  repo_result,           \* outcome of ensure_repo_exists
  pages_result,          \* outcome of ensure_pages_enabled
  upload_result,         \* outcome of upload_file_to_github
  publish_result,        \* outcome of the publish_clicked block
  \* ---- history of the invocation, for the properties
  pre_url,               \* bt_last_published_url when publish was clicked
  pre_iframe,            \* bt_iframe_code when publish was clicked
  pre_failed,            \* a step of the script run before this click failed
  pre_created,           \* the script run before this click created the repository
  snapshot_html,         \* HTML produced by the most recent do_confirm_snapshot
  file_at_get,           \* destination file at the time of the contents GET
  \* ---- a second session publishing to the same repository
  o_pc,
  o_path,
  o_sha

VARIABLES
  \* ---- the clock, time.time() in whole seconds
  now,
  ticks,                 \* how often the clock has been advanced
  \* ---- GitHub App credentials and the token acquisition (lines 92-161)
  GITHUB_APP_ID,         \* TRUE iff configured
  GITHUB_APP_PRIVATE_KEY,\* TRUE iff configured
  installation,          \* TRUE iff the app is installed for PUBLISH_OWNER
  token_cache,           \* the st.cache_data entry of get_installation_token_for_user
  token_issued,          \* when the provider issued the token in installation_token
  token_at,              \* the clock when the last acquisition returned
  token_calls,           \* HTTP requests of the last token acquisition
  exists_checked,        \* github_file_exists sent its GET in the last rerun
  jwt,                   \* payload of the last JWT built
  jwt_now,               \* the clock when it was built
  \* ---- wait_until_pages_live (lines 2062-2079)
  wl_url,                \* argument url: "" or a page URL
  wl_timeout,            \* argument timeout_sec
  wl_pc,                 \* position in the function
  wl_end,                \* local end_time
  wl_live,               \* the value returned: "none" until it returns
  wl_polls,              \* outcomes of the requests so far, in order
  \* ---- suggested_repo_name (lines 72-78)
  brand_table,           \* the brand selected
  utc_year,              \* datetime.utcnow()
  utc_month,
  utc_day,
  date_steps,            \* how often the date has been advanced
  name_last,             \* the last call: its date and the name it returned
  name_prev,             \* the call before it
  \* ---- guess_column_type (lines 1662-1676)
  series,                \* the column: cells, top to bottom
  col_type               \* the value returned: "none" until it returns

VARIABLES
  \* ---- the bars of generate_table_html_from_df (lines 1816-1836, 1864-1867)
  bar_series,            \* the bar column of the dataset
  bar_typed,             \* the text typed into "<col> max (optional)"
  bar_override,          \* bt_bar_max_overrides[col]
  bar_max,               \* bar_max[col], in hundredths; 0 until computed
  bar_fills              \* pct of every row rendered as a bar, top to bottom

VARIABLES
  \* ---- the texts generate_table_html_from_df embeds (lines 1838-1958)
  esc_title,             \* title
  esc_subtitle,          \* subtitle
  esc_notes,             \* footer_notes
  esc_style,             \* header_style
  esc_header,            \* the name of the dataset's column
  esc_cell,              \* the value of the dataset's cell
  esc_html               \* the document generated by the last rerun

VARIABLES
  \* ---- the draft settings and the confirmed snapshot (lines 1984-2007,
  \* 2113-2165, 2586-2648); dicts are objects on a heap
  draft_title,           \* bt_widget_title
  bt_striped_rows,
  bt_bar_columns,
  max_typed,             \* the text in "<col> max (optional)"
  heap,                  \* the dict objects: the entry of the bar column
  bt_bar_max_overrides,  \* the dict object the session key refers to
  confirmed_cfg,         \* bt_confirmed_cfg
  bt_confirmed_hash,
  html_code,             \* bt_html_code
  snapshot_taken,        \* do_confirm_snapshot has run
  snap                   \* what the last do_confirm_snapshot stored

VARIABLES
  \* ---- the uploader and the overwrite opt-in, for the properties
  df_uploaded_now,       \* the content of the file in the uploader
  swap_given_for         \* the file name on screen when overwrite was ticked

VARIABLES
  \* ---- the script of the generated table widget (lines 1094-1281)
  w_doc,                 \* the data rows of the document, by data-idx
  hasPager,
  hasSearch,
  tb_rows,               \* the data rows of tb in DOM order
  heads_sort,            \* dataset.sort of every header
  pageSize,
  page,
  filter,
  searchInput_value,
  timer_set,             \* the 120 ms timeout of the search field is pending
  visible,               \* the rows the last renderPage found matching
  shown,                 \* the data rows with display:table-row
  emptyRow_shown,        \* the "No Matches Found." row is displayed
  prevBtn_disabled,
  nextBtn_disabled

VARIABLES
  \* ---- the table name field of the embed tab (lines 2672-2686, 2751-2759)
  tn_typed,              \* the text in "Give a table name in few words"
  table_name_words,
  tn_file_name,          \* widget_file_name, character by character
  tn_html_generated,
  tn_can_publish

clock  == <<now, ticks>>
tokenv == <<GITHUB_APP_ID, GITHUB_APP_PRIVATE_KEY, installation, token_cache,
            token_issued, token_at, token_calls, exists_checked, jwt, jwt_now>>
pollv  == <<wl_url, wl_timeout, wl_pc, wl_end, wl_live, wl_polls>>
namev  == <<brand_table, utc_year, utc_month, utc_day, date_steps, name_last,
            name_prev>>
colv   == <<series, col_type>>
pure   == <<pollv, namev, colv>>
barv   == <<bar_series, bar_typed, bar_override, bar_max, bar_fills>>
escv   == <<esc_title, esc_subtitle, esc_notes, esc_style, esc_header,
           esc_cell, esc_html>>
draftv == <<draft_title, bt_striped_rows, bt_bar_columns, max_typed, heap,
           bt_bar_max_overrides, confirmed_cfg, bt_confirmed_hash, html_code,
           snapshot_taken, snap>>
widgetv == <<w_doc, hasPager, hasSearch, tb_rows, heads_sort, pageSize, page,
             filter, searchInput_value, timer_set, visible, shown,
             emptyRow_shown, prevBtn_disabled, nextBtn_disabled>>
tnv    == <<tn_typed, table_name_words, tn_file_name, tn_html_generated,
           tn_can_publish>>
later  == <<widgetv, tnv>>
side   == <<barv, escv, draftv, later>>
hist   == <<df_uploaded_now, swap_given_for>>
extra  == <<side, hist>>
base   == <<clock, tokenv, pure>>
aux    == <<base, extra>>

secrets  == <<GITHUB_PAT, app_installed>>
session  == <<bt_uploaded_name, bt_df_uploaded, bt_df_confirmed,
              bt_widget_title, bt_confirmed_cfg, bt_html_code, bt_html_generated,
              bt_last_published_url, bt_iframe_code, bt_allow_swap,
              bt_table_name_words, snapshot_html>>
rendered == <<installation_token, file_exists, can_publish, live_preview_html>>
provider == <<repo_exists, pages_enabled, gh_files>>
locals   == <<calls, html_final, get_resp, sha, put_req, create_req, pages_req,
              polls, repo_result, pages_result, upload_result, publish_result,
              pre_url, pre_iframe, pre_failed, pre_created, file_at_get>>
other    == <<o_pc, o_path, o_sha>>
main     == <<secrets, session, rendered, provider, pc, locals, other>>
vars     == <<main, aux>>

\* what the script of the widget leaves alone
outside_widget == <<main, base, hist, barv, escv, draftv, tnv>>

\* what the table name field leaves alone
outside_table_name == <<main, base, hist, barv, escv, draftv, widgetv>>

\* ------------------------------------------------------ pure functions
\* draft_config_from_state: the configuration read from the widget keys
draft_config_from_state(title) == [title |-> title]

\* html_from_config: deterministic rendering of (dataset, configuration)
html_from_config(df, cfg) == [kind |-> "table", df |-> df, title |-> cfg.title]

\* compute_pages_url: empty file name falls back to branded_table.html
compute_pages_url(user, repo, filename) ==
  <<user, repo, IF filename = "" THEN "branded_table.html" ELSE filename>>

\* build_iframe_snippet: "" for an empty url, else the iframe block
build_iframe_snippet(url) ==
  IF url = NoUrl THEN [src |-> NoUrl] ELSE [src |-> url]

NoIframe == [src |-> NoUrl]

\* lines 2679-2684, for names that are already lower case letters
WidgetFileName(words) == IF words = "" THEN "" ELSE words \o ".html"

\* the blob sha the contents API reports for a file
ShaOf(content) == [blob |-> content]

\* one provider call: its kind, the credential it carries, the status it got
Call(k, tok, s) == [k |-> k, tok |-> tok, s |-> s]

\* ---------------------------------------------------------------- Init
\* State after the script's first run without an uploaded file: the script
\* stops at line 2257, no bt_ key is set.  The provider may already hold the
\* repository, the Pages site and pages published earlier.
SecretsInit ==
  /\ GITHUB_PAT \in BOOLEAN
  /\ app_installed \in BOOLEAN

SessionInit ==
  /\ bt_uploaded_name = ""
  /\ bt_df_uploaded = NoDf
  /\ bt_df_confirmed = NoDf
  /\ bt_widget_title = "Table 1"
  /\ bt_confirmed_cfg = NoCfg
  /\ bt_html_code = EmptyStr
  /\ bt_html_generated = FALSE
  /\ bt_last_published_url = NoUrl
  /\ bt_iframe_code = NoIframe
  /\ bt_allow_swap = FALSE
  /\ bt_table_name_words = ""
  /\ snapshot_html = EmptyStr

RenderedInit ==
  /\ installation_token = ""
  /\ file_exists = FALSE
  /\ can_publish = FALSE
  /\ live_preview_html = EmptyStr

ProviderInit ==
  /\ repo_exists \in BOOLEAN
  /\ pages_enabled \in (IF repo_exists THEN BOOLEAN ELSE {FALSE})
  /\ gh_files \in (IF repo_exists THEN [FileNames -> {NoFile, OldHtml}]
                                  ELSE [FileNames -> {NoFile}])

LocalsInit ==
  /\ pc = "idle"
  /\ calls = <<>>
  /\ html_final = EmptyStr
  /\ get_resp = NoResp
  /\ sha = NoSha
  /\ put_req = NoReq
  /\ create_req = NoCreateReq
  /\ pages_req = NoPagesReq
  /\ polls = 0
  /\ repo_result = "none"
  /\ pages_result = "none"
  /\ upload_result = "none"
  /\ publish_result = "none"
  /\ pre_url = NoUrl
  /\ pre_iframe = NoIframe
  /\ pre_failed = FALSE
  /\ pre_created = FALSE
  /\ file_at_get = NoFile
  /\ o_pc = "idle"
  /\ o_path = ""
  /\ o_sha = NoSha

\* the application before any upload
MainInit ==
  /\ SecretsInit
  /\ SessionInit
  /\ RenderedInit
  /\ ProviderInit
  /\ LocalsInit

\* ------------------------------------------------- the embed tab (rerun)
\* lines 2690-2699: the personal token wins; otherwise the installation
\* token, "" when it cannot be obtained (the exception is swallowed)
TokenOutcomes ==
  IF GITHUB_PAT THEN {"pat"}
  ELSE IF app_installed THEN {"inst", ""} ELSE {""}

\* the answer of the contents API for a path: 200 if the file is there
ContentsTruth(path) ==
  IF repo_exists /\ path \in DOMAIN gh_files /\ gh_files[path] # NoFile THEN 200 ELSE 404

\* what a contents GET may answer: the truth, a server error, or (0) a
\* transport exception
ContentsResponses(path) == {ContentsTruth(path), 500, 0}

\* github_file_exists: True only for a 200; every exception gives False
github_file_exists(status) == status = 200

\* lines 2748-2759
swap_confirmed(exists, allow_swap) == (~exists) \/ allow_swap

CanPublish(html_generated, widget_file_name, token, exists, allow_swap) ==
  /\ html_generated
  /\ PUBLISH_OWNER # ""
  /\ REPO_NAME # ""
  /\ widget_file_name # ""
  /\ token # ""
  /\ swap_confirmed(exists, allow_swap)

\* The part of every rerun after ensure_confirm_state_exists: live preview
\* (lines 2287-2289) and the embed tab up to the publish button (2657-2765).
\* It reads the session state the event has just produced (primed).
Rerun ==
  /\ live_preview_html' =
        html_from_config(bt_df_uploaded', draft_config_from_state(bt_widget_title'))
  /\ \E tok \in TokenOutcomes :
     \E status \in ContentsResponses(WidgetFileName(bt_table_name_words')) :
       /\ installation_token' = tok
       /\ file_exists' =
            IF tok # "" /\ WidgetFileName(bt_table_name_words') # ""
            THEN github_file_exists(status) ELSE FALSE
       /\ can_publish' = CanPublish(bt_html_generated',
                                    WidgetFileName(bt_table_name_words'),
                                    tok, file_exists', bt_allow_swap')

\* a new script run starts with fresh locals
FreshLocals ==
  /\ calls' = <<>>
  /\ html_final' = EmptyStr
  /\ get_resp' = NoResp
  /\ sha' = NoSha
  /\ put_req' = NoReq
  /\ create_req' = NoCreateReq
  /\ pages_req' = NoPagesReq
  /\ polls' = 0
  /\ repo_result' = "none"
  /\ pages_result' = "none"
  /\ upload_result' = "none"
  /\ publish_result' = "none"
  /\ pre_url' = NoUrl
  /\ pre_iframe' = NoIframe
  /\ pre_failed' = FALSE
  /\ pre_created' = FALSE
  /\ file_at_get' = NoFile

\* ------------------------------------------------------------ UI events
\* a reset that leaves bt_html_code in the session
HtmlCodeKept(html_code_before) == html_code_before

\* lines 2087 and 2119: bt_html_code is deleted, then set to ""
HtmlCodeAfterReset(html_code_before) == EmptyStr

\* A CSV named n with content d is put into the uploader (lines 2259-2278).
CSVUploaded(n, d) ==
  /\ pc = "idle"
  /\ IF bt_uploaded_name # n
     THEN \* reset_widget_state_for_new_upload, then ensure_confirm_state_exists
          /\ bt_uploaded_name' = n
          /\ bt_df_uploaded' = d
          /\ bt_df_confirmed' = d
          /\ bt_confirmed_cfg' = draft_config_from_state(bt_widget_title)
          /\ bt_html_code' = HtmlCodeAfterReset(bt_html_code)
          /\ bt_html_generated' = FALSE
          /\ bt_last_published_url' = NoUrl
          /\ bt_iframe_code' = NoIframe
          /\ bt_allow_swap' = FALSE
     ELSE UNCHANGED <<bt_uploaded_name, bt_df_uploaded, bt_df_confirmed,
                      bt_confirmed_cfg, bt_html_code, bt_html_generated,
                      bt_last_published_url, bt_iframe_code, bt_allow_swap>>
  /\ UNCHANGED <<bt_widget_title, bt_table_name_words, snapshot_html>>
  /\ FreshLocals
  /\ Rerun
  /\ UNCHANGED <<base, side, secrets, provider, pc, other>>

\* the upload, the uploader's content not recorded
UploadCSV(n, d) == CSVUploaded(n, d) /\ UNCHANGED hist

\* the upload, and the file now in the uploader
UploadCSVFile(n, d) ==
  /\ CSVUploaded(n, d)
  /\ df_uploaded_now' = d
  /\ UNCHANGED swap_given_for

\* The user changes a draft setting (the widgets exist only after an upload).
EditDraft(t) ==
  /\ pc = "idle"
  /\ bt_uploaded_name # ""
  /\ t # bt_widget_title
  /\ bt_widget_title' = t
  /\ UNCHANGED <<bt_uploaded_name, bt_df_uploaded, bt_df_confirmed,
                 bt_confirmed_cfg, bt_html_code, bt_html_generated,
                 bt_last_published_url, bt_iframe_code, bt_allow_swap,
                 bt_table_name_words, snapshot_html>>
  /\ FreshLocals
  /\ Rerun
  /\ UNCHANGED <<aux, secrets, provider, pc, other>>

\* "Confirm & Save": do_confirm_snapshot is the button's callback.
do_confirm_snapshot ==
  /\ bt_df_confirmed' = bt_df_uploaded
  /\ bt_confirmed_cfg' = draft_config_from_state(bt_widget_title)
  /\ bt_html_code' = html_from_config(bt_df_confirmed', bt_confirmed_cfg')
  /\ bt_html_generated' = TRUE
  /\ snapshot_html' = html_from_config(bt_df_uploaded,
                                       draft_config_from_state(bt_widget_title))

ConfirmAndSave ==
  /\ pc = "idle"
  /\ bt_uploaded_name # ""
  /\ do_confirm_snapshot
  /\ UNCHANGED <<bt_uploaded_name, bt_df_uploaded, bt_widget_title,
                 bt_last_published_url, bt_iframe_code, bt_allow_swap,
                 bt_table_name_words>>
  /\ FreshLocals
  /\ Rerun
  /\ UNCHANGED <<aux, secrets, provider, pc, other>>

\* The user types a table name (line 2672).
EnterTableName(w) ==
  /\ pc = "idle"
  /\ bt_uploaded_name # ""
  /\ w # bt_table_name_words
  /\ bt_table_name_words' = w
  /\ UNCHANGED <<bt_uploaded_name, bt_df_uploaded, bt_df_confirmed,
                 bt_widget_title, bt_confirmed_cfg, bt_html_code, bt_html_generated,
                 bt_last_published_url, bt_iframe_code, bt_allow_swap, snapshot_html>>
  /\ FreshLocals
  /\ Rerun
  /\ UNCHANGED <<aux, secrets, provider, pc, other>>

\* The user toggles "Overwrite existing page"; the checkbox is on screen
\* only if the last run saw the file and nothing was published yet (2731).
OverwriteToggled ==
  /\ pc = "idle"
  /\ bt_uploaded_name # ""
  /\ file_exists
  /\ bt_last_published_url = NoUrl
  /\ bt_allow_swap' = ~bt_allow_swap
  /\ UNCHANGED <<bt_uploaded_name, bt_df_uploaded, bt_df_confirmed,
                 bt_widget_title, bt_confirmed_cfg, bt_html_code, bt_html_generated,
                 bt_last_published_url, bt_iframe_code, bt_table_name_words,
                 snapshot_html>>
  /\ FreshLocals
  /\ Rerun
  /\ UNCHANGED <<base, side, secrets, provider, pc, other>>

\* the toggle, the file name on screen not recorded
ToggleOverwrite == OverwriteToggled /\ UNCHANGED hist

\* the toggle, and the file name it was given for
ToggleOverwriteFor ==
  /\ OverwriteToggled
  /\ swap_given_for' = IF bt_allow_swap' THEN WidgetFileName(bt_table_name_words)
                       ELSE ""
  /\ UNCHANGED df_uploaded_now

\* ------------------------------------------------- the publish invocation
\* a block that publishes what the preview shows
HtmlFinalLivePreview == live_preview_html

\* line 2784: the HTML the block publishes
HtmlFinal == bt_html_code

\* a block that enables Pages before it has checked the repository
BlockNextPagesFirst(after) ==
  CASE after = "start"  -> "pagesGET"
    [] after = "pages"  -> "repoGET"
    [] after = "repo"   -> "fileGET"
    [] after = "upload" -> "url"
    [] after = "url"    -> "poll"

\* lines 2790-2811: the order of the block's steps; `after` is the step
\* that has just returned
BlockNext(after) ==
  CASE after = "start"  -> "repoGET"
    [] after = "repo"   -> "pagesGET"
    [] after = "pages"  -> "fileGET"
    [] after = "upload" -> "url"
    [] after = "url"    -> "poll"

\* the outcomes of the three steps that raise
RepoFailed   == repo_result \in {"raise_check", "raise_nopat", "raise_create"}
PagesFailed  == pages_result \in {"raise_check", "raise_enable"}
UploadFailed == upload_result \in {"raise_check", "raise_exc", "raise_upload"}

\* "Get embed script" (lines 2761-2788).  The button can be clicked only
\* while it is enabled on screen; the click reruns the script, which
\* recomputes can_publish before it reaches `if publish_clicked`.
PublishClicked ==
  /\ pc = "idle"
  /\ bt_uploaded_name # ""
  /\ can_publish
  /\ UNCHANGED session
  /\ Rerun
  /\ calls' = <<>>
  /\ get_resp' = NoResp
  /\ sha' = NoSha
  /\ put_req' = NoReq
  /\ create_req' = NoCreateReq
  /\ pages_req' = NoPagesReq
  /\ polls' = 0
  /\ repo_result' = "none"
  /\ pages_result' = "none"
  /\ upload_result' = "none"
  /\ file_at_get' = NoFile
  /\ pre_url' = bt_last_published_url
  /\ pre_iframe' = bt_iframe_code
  /\ IF can_publish'
     THEN /\ html_final' = HtmlFinal
          /\ IF HtmlFinal = EmptyStr
             THEN pc' = "idle" /\ publish_result' = "error_nohtml"
             ELSE pc' = BlockNext("start") /\ publish_result' = "running"
     ELSE /\ html_final' = EmptyStr
          /\ pc' = "idle"
          /\ publish_result' = "none"
  /\ UNCHANGED <<aux, secrets, provider, other>>

\* the click, the outcome of the script run before it not being recorded
ClickPublish ==
  /\ PublishClicked
  /\ pre_failed' = FALSE
  /\ pre_created' = FALSE

\* the same click, with the outcome of the script run before it recorded:
\* the session is as that run left it, so a click right after a failed
\* invocation is a re-invocation with the same target and the same HTML
ClickPublishAgain ==
  /\ PublishClicked
  /\ pre_failed' = (RepoFailed \/ PagesFailed \/ UploadFailed)
  /\ pre_created' = (repo_result = "created")

\* an exception handler that lets the block go on after the failure
AbortContinues(err) ==
  /\ pc' = "url"
  /\ publish_result' = "running"

\* the block's `except Exception`: st.error, nothing else
Abort(err) ==
  /\ pc' = "idle"
  /\ publish_result' = err

\* ---- ensure_repo_exists (lines 164-201)
RepoTruth == IF repo_exists THEN 200 ELSE 404

\* a step that creates the repository without looking at the GET
RepoAfterGetSkipsCheck(status, pat) ==
  IF pat THEN "create" ELSE "raise_nopat"

\* a check that treats every answer but 200 as "missing"
RepoAfterGetCreatesOnError(status, pat) ==
  IF status = 200 THEN "exists"
  ELSE IF ~pat THEN "raise_nopat"
  ELSE "create"

\* a check that goes on to create without a personal token
RepoAfterGetNoPatCheck(status, pat) ==
  IF status = 200 THEN "exists"
  ELSE IF status # 404 THEN "raise_check"
  ELSE "create"

\* what happens after the repository GET
RepoAfterGet(status, pat) ==
  IF status = 200 THEN "exists"
  ELSE IF status # 404 THEN "raise_check"
  ELSE IF ~pat THEN "raise_nopat"
  ELSE "create"

\* what happens after the create POST
RepoAfterPost(status) ==
  IF status \in {200, 201} THEN "created" ELSE "raise_create"

CreatePayload(repo) == [name |-> repo, auto_init |-> TRUE, private |-> FALSE]

\* line 193: the create POST carries GITHUB_PAT
CreateToken == IF GITHUB_PAT THEN "pat" ELSE ""

EnsureRepoGet ==
  /\ pc = "repoGET"
  /\ \E status \in {RepoTruth, 500} :
       /\ calls' = Append(calls, Call("repoGET", installation_token, status))
       /\ LET r == RepoAfterGet(status, GITHUB_PAT) IN
            IF r = "create"
            THEN pc' = "repoPOST" /\ UNCHANGED <<repo_result, publish_result>>
            ELSE /\ repo_result' = r
                 /\ IF r = "exists"
                    THEN pc' = BlockNext("repo") /\ UNCHANGED publish_result
                    ELSE Abort("error_repo")
  /\ UNCHANGED <<aux, secrets, session, rendered, provider, other, html_final, get_resp, sha,
                 put_req, create_req, pages_req, polls, pages_result,
                 upload_result, pre_url, pre_iframe,
                 pre_failed, pre_created, file_at_get>>

EnsureRepoCreate ==
  /\ pc = "repoPOST"
  /\ \E status \in {201, 422} :
       /\ calls' = Append(calls, Call("repoPOST", CreateToken, status))
       /\ create_req' = CreatePayload(REPO_NAME)
       /\ repo_result' = RepoAfterPost(status)
       /\ repo_exists' = (status \in {200, 201})
       /\ IF RepoAfterPost(status) = "created"
          THEN pc' = BlockNext("repo") /\ UNCHANGED publish_result
          ELSE Abort("error_repo")
  /\ UNCHANGED <<aux, secrets, session, rendered, pages_enabled, gh_files, other,
                 html_final, get_resp, sha, put_req, pages_req, polls, pages_result,
                 upload_result, pre_url, pre_iframe,
                 pre_failed, pre_created, file_at_get>>

\* ---- ensure_pages_enabled (lines 204-219), called inside try/except: pass
PagesTruth == IF pages_enabled THEN 200 ELSE 404

\* a check without the early return for 403
PagesAfterGet403Enables(status) ==
  IF status = 200 THEN "ok"
  ELSE IF status \notin {404, 403} THEN "raise_check"
  ELSE "enable"

PagesAfterGet(status) ==
  IF status = 200 THEN "ok"
  ELSE IF status \notin {404, 403} THEN "raise_check"
  ELSE IF status = 403 THEN "ok"
  ELSE "enable"

PagesAfterPost(status) ==
  IF status \in {201, 202} THEN "ok" ELSE "raise_enable"

PagesPayload(branch) == [branch |-> branch, path |-> "/"]

\* lines 2792-2795: what the block does with the outcome of
\* ensure_pages_enabled; the exception is swallowed
AfterPages(result) == BlockNext("pages")

EnsurePagesGet ==
  /\ pc = "pagesGET"
  /\ \E status \in {PagesTruth, 403, 500} :
       /\ calls' = Append(calls, Call("pagesGET", installation_token, status))
       /\ LET r == PagesAfterGet(status) IN
            IF r = "enable"
            THEN pc' = "pagesPOST" /\ UNCHANGED <<pages_result, publish_result>>
            ELSE /\ pages_result' = r
                 /\ pc' = AfterPages(r)
                 /\ UNCHANGED publish_result
  /\ UNCHANGED <<aux, secrets, session, rendered, provider, other, html_final, get_resp, sha,
                 put_req, create_req, pages_req, polls, repo_result,
                 upload_result, pre_url, pre_iframe,
                 pre_failed, pre_created, file_at_get>>

EnsurePagesEnable ==
  /\ pc = "pagesPOST"
  /\ \E status \in {201, 202, 422} :
       /\ calls' = Append(calls, Call("pagesPOST", installation_token, status))
       /\ pages_req' = PagesPayload("main")
       /\ pages_result' = PagesAfterPost(status)
       /\ pages_enabled' = (status \in {201, 202})
       /\ pc' = AfterPages(PagesAfterPost(status))
       /\ UNCHANGED publish_result
  /\ UNCHANGED <<aux, secrets, session, rendered, repo_exists, gh_files, other,
                 html_final, get_resp, sha, put_req, create_req, polls, repo_result,
                 upload_result, pre_url, pre_iframe,
                 pre_failed, pre_created, file_at_get>>

\* ---- upload_file_to_github (lines 222-251)
\* the answers a contents GET may give: the truth (200 with the blob sha,
\* or 404), a server error, a transport exception (0), a 200 without sha
ContentsGetResponses(path) ==
  { IF ContentsTruth(path) = 200
    THEN [status |-> 200, sha |-> ShaOf(gh_files[path])]
    ELSE [status |-> 404, sha |-> NoSha],
    [status |-> 500, sha |-> NoSha],
    [status |-> 0, sha |-> NoSha],
    [status |-> 200, sha |-> NoSha] }

\* an upload that does not look at the status of the GET
UploadAfterGetIgnoresStatus(resp) ==
  IF resp.status = 0 THEN "raise_exc" ELSE "put"

UploadAfterGet(resp) ==
  IF resp.status = 0 THEN "raise_exc"
  ELSE IF resp.status = 200 THEN "put"
  ELSE IF resp.status # 404 THEN "raise_check"
  ELSE "put"

\* an upload that never attaches the sha of the file it found
UploadShaDropped(resp) == NoSha

\* the local variable sha after the GET (lines 238-240)
UploadSha(resp) == IF resp.status = 200 THEN resp.sha ELSE NoSha

\* an upload that reads the sha again right before the PUT
PutPayloadFreshSha(path, content, s) ==
  [path |-> path, content |-> content,
   has_sha |-> (gh_files[path] # NoFile),
   sha |-> IF gh_files[path] # NoFile THEN [blob |-> gh_files[path]] ELSE NoSha]

\* lines 244-247: the sha is attached only when there is one
PutPayload(path, content, s) ==
  [path |-> path, content |-> content, has_sha |-> (s # NoSha),
   sha |-> IF s # NoSha THEN s ELSE NoSha]

UploadAfterPut(status) ==
  IF status \in {200, 201} THEN "ok" ELSE "raise_upload"

\* the contents API's answer to a PUT: create without sha, update only
\* with the sha of the blob that is there now
ServerPutStatus(path, req) ==
  IF ~repo_exists THEN 404
  ELSE IF gh_files[path] = NoFile
       THEN (IF req.has_sha THEN 422 ELSE 201)
       ELSE IF ~req.has_sha THEN 422
       ELSE IF req.sha = ShaOf(gh_files[path]) THEN 200
       ELSE 409

ServerPutResponses(path, req) == {ServerPutStatus(path, req), 500}

widget_file_name == WidgetFileName(bt_table_name_words)

UploadGet ==
  /\ pc = "fileGET"
  /\ \E resp \in ContentsGetResponses(widget_file_name) :
       /\ calls' = Append(calls, Call("fileGET", installation_token, resp.status))
       /\ file_at_get' = gh_files[widget_file_name]
       /\ get_resp' = resp
       /\ LET r == UploadAfterGet(resp) IN
            IF r = "put"
            THEN /\ sha' = UploadSha(resp)
                 /\ pc' = "filePUT"
                 /\ UNCHANGED <<upload_result, publish_result>>
            ELSE /\ upload_result' = r
                 /\ Abort("error_upload")
                 /\ UNCHANGED sha
  /\ UNCHANGED <<aux, secrets, session, rendered, provider, other, html_final,
                 put_req, create_req, pages_req, polls, repo_result,
                 pages_result, pre_url, pre_iframe,
                 pre_failed, pre_created>>

UploadPut ==
  /\ pc = "filePUT"
  /\ LET req == PutPayload(widget_file_name, html_final, sha) IN
     \E status \in ServerPutResponses(widget_file_name, req) :
       /\ calls' = Append(calls, Call("filePUT", installation_token, status))
       /\ put_req' = req
       /\ gh_files' = IF status \in {200, 201}
                      THEN [gh_files EXCEPT ![widget_file_name] = req.content]
                      ELSE gh_files
       /\ upload_result' = UploadAfterPut(status)
       /\ IF UploadAfterPut(status) = "ok"
          THEN pc' = BlockNext("upload") /\ UNCHANGED publish_result
          ELSE Abort("error_upload")
  /\ UNCHANGED <<aux, secrets, session, rendered, repo_exists, pages_enabled, other,
                 html_final, get_resp, sha, create_req, pages_req, polls, repo_result,
                 pages_result, pre_url, pre_iframe,
                 pre_failed, pre_created, file_at_get>>

\* ---- lines 2807-2808
ComputeUrl ==
  /\ pc = "url"
  /\ calls' = Append(calls, Call("url", "", 0))
  /\ bt_last_published_url' =
        compute_pages_url(PUBLISH_OWNER, REPO_NAME, widget_file_name)
  /\ pc' = BlockNext("url")
  /\ UNCHANGED <<bt_uploaded_name, bt_df_uploaded, bt_df_confirmed,
                 bt_widget_title, bt_confirmed_cfg, bt_html_code, bt_html_generated,
                 bt_iframe_code, bt_allow_swap, bt_table_name_words, snapshot_html>>
  /\ UNCHANGED <<aux, secrets, rendered, provider, other, html_final, get_resp, sha, put_req,
                 create_req, pages_req, polls, repo_result, pages_result,
                 upload_result, publish_result, pre_url, pre_iframe,
                 pre_failed, pre_created, file_at_get>>

\* ---- wait_until_pages_live (lines 2062-2079) and lines 2813-2821
\* one iteration of the loop: a 200 ends it, anything else sleeps
Poll ==
  /\ pc = "poll"
  /\ polls < MaxPolls
  /\ \E status \in {200, 404} :
       /\ calls' = Append(calls, Call("poll", "", status))
       /\ IF status = 200
          THEN /\ bt_iframe_code' = build_iframe_snippet(bt_last_published_url)
               /\ pc' = "idle"
               /\ publish_result' = "live"
               /\ UNCHANGED polls
          ELSE /\ polls' = polls + 1
               /\ UNCHANGED <<bt_iframe_code, pc, publish_result>>
  /\ UNCHANGED <<bt_uploaded_name, bt_df_uploaded, bt_df_confirmed,
                 bt_widget_title, bt_confirmed_cfg, bt_html_code, bt_html_generated,
                 bt_last_published_url, bt_allow_swap, bt_table_name_words,
                 snapshot_html>>
  /\ UNCHANGED <<aux, secrets, rendered, provider, other, html_final, get_resp, sha, put_req,
                 create_req, pages_req, repo_result, pages_result,
                 upload_result, pre_url, pre_iframe,
                 pre_failed, pre_created, file_at_get>>

\* a timeout that is treated as a failure of the publish
PollTimeoutFails ==
  /\ pc = "poll"
  /\ polls = MaxPolls
  /\ bt_last_published_url' = pre_url
  /\ Abort("error_poll")
  /\ UNCHANGED <<bt_uploaded_name, bt_df_uploaded, bt_df_confirmed,
                 bt_widget_title, bt_confirmed_cfg, bt_html_code, bt_html_generated,
                 bt_iframe_code, bt_allow_swap, bt_table_name_words,
                 snapshot_html>>
  /\ UNCHANGED <<aux, secrets, rendered, provider, other, calls, html_final, get_resp, sha,
                 put_req, create_req, pages_req, polls, repo_result,
                 pages_result, upload_result, pre_url, pre_iframe,
                 pre_failed, pre_created, file_at_get>>

\* the timeout has elapsed without a 200
PollTimeout ==
  /\ pc = "poll"
  /\ polls = MaxPolls
  /\ bt_iframe_code' = NoIframe
  /\ pc' = "idle"
  /\ publish_result' = "pending"
  /\ UNCHANGED <<bt_uploaded_name, bt_df_uploaded, bt_df_confirmed,
                 bt_widget_title, bt_confirmed_cfg, bt_html_code, bt_html_generated,
                 bt_last_published_url, bt_allow_swap, bt_table_name_words,
                 snapshot_html>>
  /\ UNCHANGED <<aux, secrets, rendered, provider, other, calls, html_final, get_resp, sha,
                 put_req, create_req, pages_req, polls, repo_result,
                 pages_result, upload_result, pre_url, pre_iframe,
                 pre_failed, pre_created, file_at_get>>

\* ------------------------------------------- a second publishing session
\* Another session runs upload_file_to_github on the same repository with
\* its own page: its contents GET ...
OtherUploadGet(path) ==
  /\ o_pc = "idle"
  /\ repo_exists
  /\ \E resp \in ContentsGetResponses(path) :
       IF UploadAfterGet(resp) = "put"
       THEN /\ o_pc' = "filePUT"
            /\ o_path' = path
            /\ o_sha' = UploadSha(resp)
       ELSE UNCHANGED other
  /\ UNCHANGED <<aux, secrets, session, rendered, provider, pc, locals>>

\* ... and its contents PUT
OtherUploadPut ==
  /\ o_pc = "filePUT"
  /\ LET req == PutPayload(o_path, OtherHtml, o_sha) IN
     \E status \in ServerPutResponses(o_path, req) :
       gh_files' = IF status \in {200, 201}
                   THEN [gh_files EXCEPT ![o_path] = req.content]
                   ELSE gh_files
  /\ o_pc' = "idle"
  /\ o_path' = ""
  /\ o_sha' = NoSha
  /\ UNCHANGED <<aux, secrets, session, rendered, repo_exists, pages_enabled, pc, locals>>

\* ------------------------------------------------ the token acquisition
\* build_github_app_jwt (lines 99-103)
JWT_BACKDATE     == 30
JWT_LIFETIME     == 9 * 60
\* @st.cache_data(ttl=50 * 60), line 139
CACHE_TTL        == 50 * 60
\* "token lifetime is ~1 hour", line 143
TOKEN_LIFETIME   == 60 * 60
\* timeout=20 of the two requests (lines 126, 154)
REQUEST_TIMEOUT  == 20

MaxTicks   == 3
\* by how much the clock moves between two reruns
ClockSteps == {10 * 60, CACHE_TTL - 1, CACHE_TTL}
\* how long a request takes; a slow request is an advance of the clock
Latencies(n) == IF n < MaxTicks THEN {0, REQUEST_TIMEOUT} ELSE {0}
Slow(l)      == IF l > 0 THEN 1 ELSE 0

NoJwt   == [iat |-> 0, exp |-> 0, iss |-> ""]
NoEntry == [set |-> FALSE, value |-> "", issued |-> 0, stored |-> 0]

\* a JWT that lives ninety minutes
JwtPayloadLong(t) ==
  [iat |-> t - JWT_BACKDATE, exp |-> t + 90 * 60, iss |-> "app_id"]

\* lines 99-104: the payload built when the clock shows t
JwtPayload(t) ==
  [iat |-> t - JWT_BACKDATE, exp |-> t + JWT_LIFETIME, iss |-> "app_id"]

\* a builder without the check of line 96
JwtCredsMissingNoCheck(app_id, private_key_pem) == FALSE

\* line 96: build_github_app_jwt raises before it builds anything
JwtCredsMissing(app_id, private_key_pem) == ~app_id \/ ~private_key_pem

\* a cache that keeps an entry for as long as the token lives, and longer
CacheFreshForLifetime(entry, t) ==
  entry.set /\ t - entry.stored <= TOKEN_LIFETIME + 10 * 60

\* st.cache_data(ttl=...): an entry is served while it is younger than ttl
CacheFresh(entry, t) == entry.set /\ t - entry.stored < CACHE_TTL

\* the answers of GET /users/{username}/installation
InstallationResponses == {IF installation THEN 200 ELSE 404, 403, 500}
\* the answers of POST /app/installations/{id}/access_tokens
AccessTokenResponses  == {201, 500}

\* what token_to_use, the cache and the clock are when lines 2690-2699 are done
TokenResult(tok, issued, reqs, entry, t, n) ==
  /\ ticks' = n
  /\ installation_token' = tok
  /\ token_issued' = issued
  /\ token_calls' = reqs
  /\ token_cache' = entry
  /\ token_at' = t
  /\ now' = t

\* lines 2690-2699 with get_installation_token_for_user (139-161),
\* get_installation_id_for_user (112-136) and build_github_app_jwt (92-109);
\* PUBLISH_OWNER is not empty.  An exception leaves "" and is not cached;
\* a returned value, "" included, is cached.
AcquireToken ==
  IF GITHUB_PAT
  THEN /\ TokenResult("pat", 0, <<>>, token_cache, now, ticks)
       /\ UNCHANGED <<jwt, jwt_now>>
  ELSE IF CacheFresh(token_cache, now)
  THEN /\ TokenResult(token_cache.value, token_cache.issued, <<>>, token_cache,
                      now, ticks)
       /\ UNCHANGED <<jwt, jwt_now>>
  ELSE IF JwtCredsMissing(GITHUB_APP_ID, GITHUB_APP_PRIVATE_KEY)
  THEN /\ TokenResult("", 0, <<>>, token_cache, now, ticks)
       /\ UNCHANGED <<jwt, jwt_now>>
  ELSE \E l1 \in Latencies(ticks), s1 \in InstallationResponses :
         LET t1 == now + l1
             n1 == ticks + Slow(l1)
         IN
         IF s1 = 200
         THEN \E l2 \in Latencies(n1), s2 \in AccessTokenResponses :
              \E at \in {t1, t1 + l2} :
                LET t2 == t1 + l2
                    n2 == n1 + Slow(l2)
                IN
                /\ jwt' = JwtPayload(t1)
                /\ jwt_now' = t1
                /\ IF s2 \in {200, 201}
                   THEN TokenResult("inst", at, <<"installationGET", "tokenPOST">>,
                                    [set |-> TRUE, value |-> "inst", issued |-> at,
                                     stored |-> t2], t2, n2)
                   ELSE TokenResult("", 0, <<"installationGET", "tokenPOST">>,
                                    token_cache, t2, n2)
         ELSE /\ jwt' = JwtPayload(now)
              /\ jwt_now' = now
              /\ IF s1 \in {404, 403}
                 THEN TokenResult("", 0, <<"installationGET">>,
                                  [set |-> TRUE, value |-> "", issued |-> 0,
                                   stored |-> t1], t1, n1)
                 ELSE TokenResult("", 0, <<"installationGET">>, token_cache, t1, n1)

\* One rerun of the embed tab (lines 2657-2788) with the token acquired as
\* the code acquires it; `clicked` says that "Get embed script" caused it.
EmbedTabToken(clicked) ==
  /\ pc = "idle"
  /\ clicked => can_publish
  /\ AcquireToken
  /\ \E status \in ContentsResponses(widget_file_name) :
       IF installation_token' # "" /\ widget_file_name # ""
       THEN /\ file_exists' = github_file_exists(status)
            /\ exists_checked' = TRUE
       ELSE /\ file_exists' = FALSE
            /\ exists_checked' = FALSE
  /\ can_publish' = CanPublish(bt_html_generated, widget_file_name,
                               installation_token', file_exists', bt_allow_swap)
  /\ IF clicked /\ can_publish'
     THEN /\ pc' = BlockNext("start")
          /\ html_final' = HtmlFinal
          /\ publish_result' = "running"
     ELSE /\ pc' = "idle"
          /\ html_final' = EmptyStr
          /\ publish_result' = "none"
  /\ calls' = <<>>
  /\ get_resp' = NoResp
  /\ sha' = NoSha
  /\ put_req' = NoReq
  /\ create_req' = NoCreateReq
  /\ pages_req' = NoPagesReq
  /\ polls' = 0
  /\ repo_result' = "none"
  /\ pages_result' = "none"
  /\ upload_result' = "none"
  /\ file_at_get' = NoFile
  /\ pre_url' = bt_last_published_url
  /\ pre_iframe' = bt_iframe_code
  /\ pre_failed' = FALSE
  /\ pre_created' = FALSE
  /\ UNCHANGED <<secrets, session, live_preview_html, provider, other,
                 GITHUB_APP_ID, GITHUB_APP_PRIVATE_KEY, installation, pure,
                 extra>>

\* time passes between two reruns
Tick(d) ==
  /\ pc = "idle"
  /\ ticks < MaxTicks
  /\ now' = now + d
  /\ ticks' = ticks + 1
  /\ UNCHANGED <<main, tokenv, pure, extra>>

\* ------------------------------------- wait_until_pages_live, with the clock
\* interval_sec=2 of the call (line 2811) and the default (line 2062)
POLL_INTERVAL == 2
\* timeout=10 of the request (line 2072)
POLL_REQUEST_TIMEOUT == 10

MaxTimeout   == 7
\* values of the argument timeout_sec
PollTimeouts == 0..MaxTimeout
\* how long one request takes
RequestSecs  == {0, 1, POLL_REQUEST_TIMEOUT}
\* what one request gives: a status, or 0 for an exception of requests.get
PollOutcomes == {200, 404, 0}

\* a loop that gives up at the first exception
PollAfterRequestAborts(outcome) ==
  IF outcome = 200 THEN "True" ELSE IF outcome = 0 THEN "False" ELSE "sleep"

\* lines 2071-2077: only a 200 returns, everything else goes on to the sleep
PollAfterRequest(outcome) ==
  IF outcome = 200 THEN "True" ELSE "sleep"

\* lines 2066-2069
WaitStart ==
  /\ wl_pc = "start"
  /\ IF wl_url = NoUrl
     THEN wl_pc' = "done" /\ wl_live' = "False" /\ UNCHANGED wl_end
     ELSE wl_pc' = "test" /\ wl_end' = now + wl_timeout /\ UNCHANGED wl_live
  /\ UNCHANGED <<wl_url, wl_timeout, wl_polls, clock>>
  /\ UNCHANGED <<main, tokenv, namev, colv, extra>>

\* line 2070, and line 2079 when the test fails
WaitTest ==
  /\ wl_pc = "test"
  /\ IF now < wl_end
     THEN wl_pc' = "request" /\ UNCHANGED wl_live
     ELSE wl_pc' = "done" /\ wl_live' = "False"
  /\ UNCHANGED <<wl_url, wl_timeout, wl_end, wl_polls, clock>>
  /\ UNCHANGED <<main, tokenv, namev, colv, extra>>

\* lines 2071-2076: the request, which takes time
WaitRequest ==
  /\ wl_pc = "request"
  /\ \E outcome \in PollOutcomes, secs \in RequestSecs :
       /\ wl_polls' = Append(wl_polls, outcome)
       /\ now' = now + secs
       /\ IF PollAfterRequest(outcome) = "sleep"
          THEN wl_pc' = "sleep" /\ UNCHANGED wl_live
          ELSE wl_pc' = "done" /\ wl_live' = PollAfterRequest(outcome)
  /\ UNCHANGED <<wl_url, wl_timeout, wl_end, ticks>>
  /\ UNCHANGED <<main, tokenv, namev, colv, extra>>

\* line 2077: time.sleep(interval_sec)
WaitSleep ==
  /\ wl_pc = "sleep"
  /\ now' = now + POLL_INTERVAL
  /\ wl_pc' = "test"
  /\ UNCHANGED <<wl_url, wl_timeout, wl_end, wl_live, wl_polls, ticks>>
  /\ UNCHANGED <<main, tokenv, namev, colv, extra>>

\* ------------------------------------------------- suggested_repo_name
\* A brand is a sequence of pieces of text; the piece " " is white space.
KnownBrands ==
  {"Action Network", "Canada Sports Betting", "VegasInsider", "RotoGrinders",
   "AceOdds", "BOLAVIP"}

\* values of st.session_state["brand_table"]: the brands of the select box,
\* its placeholder, a padded brand, nothing
BrandInputs ==
  {<<b>> : b \in KnownBrands} \cup
  {<<"Choose a brand...">>, <<" ", "AceOdds", " ">>, <<>>}

FirstYear    == 2026
CenturyEnd   == 2099
Years        == {FirstYear, CenturyEnd}
MaxDay       == 2
MaxDateSteps == 3

RECURSIVE LStrip(_)
LStrip(b) == IF b # <<>> /\ Head(b) = " " THEN LStrip(Tail(b)) ELSE b

RECURSIVE RStrip(_)
RStrip(b) ==
  IF b # <<>> /\ b[Len(b)] = " " THEN RStrip(SubSeq(b, 1, Len(b) - 1)) ELSE b

RECURSIVE Join(_)
Join(b) == IF b = <<>> THEN "" ELSE Head(b) \o Join(Tail(b))

\* line 73: (brand or "").strip()
Strip(b) == Join(RStrip(LStrip(b)))

\* lines 47-54
BRAND_REPO_PREFIX_FULL(b) ==
  CASE b = "Action Network"        -> "ActionNetwork"
    [] b = "Canada Sports Betting" -> "CanadaSportsBetting"
    [] b = "VegasInsider"          -> "VegasInsider"
    [] b = "RotoGrinders"          -> "RotoGrinders"
    [] b = "AceOdds"               -> "AceOdds"
    [] b = "BOLAVIP"               -> "BOLAVIP"

\* line 74: BRAND_REPO_PREFIX_FULL.get(b, "ActionNetwork")
BrandPrefix(b) ==
  IF b \in KnownBrands THEN BRAND_REPO_PREFIX_FULL(b) ELSE "ActionNetwork"

\* a table made of the months' first letters
MONTH_CODE_FirstLetters(m) ==
  <<"j", "f", "m", "a", "m", "j", "j", "a", "s", "o", "n", "d">>[m]

\* lines 56-69
MONTH_CODE(m) ==
  CASE m = 1  -> "j"
    [] m = 2  -> "f"
    [] m = 3  -> "m"
    [] m = 4  -> "a"
    [] m = 5  -> "y"
    [] m = 6  -> "u"
    [] m = 7  -> "l"
    [] m = 8  -> "g"
    [] m = 9  -> "s"
    [] m = 10 -> "o"
    [] m = 11 -> "n"
    [] m = 12 -> "d"

\* line 76: MONTH_CODE.get(now.month, "x")
MonthCode(m) == IF m \in 1..12 THEN MONTH_CODE(m) ELSE "x"

DigitChar(d) == <<"0", "1", "2", "3", "4", "5", "6", "7", "8", "9">>[d + 1]

\* str(n) for n >= 0, as the sequence of its digits
RECURSIVE StrDigits(_)
StrDigits(n) ==
  IF n < 10 THEN <<DigitChar(n)>>
  ELSE Append(StrDigits(n \div 10), DigitChar(n % 10))

\* s[-2:]
LastTwo(s) == IF Len(s) <= 2 THEN s ELSE SubSeq(s, Len(s) - 1, Len(s))

\* a suffix made of the first two digits of the year
YearSuffixFirstTwo(year) == Join(SubSeq(StrDigits(year), 1, 2))

\* line 77: str(now.year)[-2:]
YearSuffix(year) == Join(LastTwo(StrDigits(year)))

\* lines 72-78, utcnow() being (year, month, day)
suggested_repo_name(brand, year, month) ==
  BrandPrefix(Strip(brand)) \o "t" \o MonthCode(month) \o YearSuffix(year)

\* a call of suggested_repo_name
NameCall ==
  /\ name_prev' = name_last
  /\ name_last' = [name  |-> suggested_repo_name(brand_table, utc_year, utc_month),
                   year  |-> utc_year,
                   month |-> utc_month,
                   day   |-> utc_day]
  /\ UNCHANGED <<brand_table, utc_year, utc_month, utc_day, date_steps>>
  /\ UNCHANGED <<main, clock, tokenv, pollv, colv, extra>>

\* a later day of the same UTC month
LaterSameMonth ==
  /\ date_steps < MaxDateSteps
  /\ utc_day < MaxDay
  /\ utc_day' = utc_day + 1
  /\ date_steps' = date_steps + 1
  /\ UNCHANGED <<brand_table, utc_year, utc_month, name_last, name_prev>>
  /\ UNCHANGED <<main, clock, tokenv, pollv, colv, extra>>

\* the first day of the following UTC month
FollowingMonth ==
  /\ date_steps < MaxDateSteps
  /\ utc_day' = 1
  /\ utc_month' = IF utc_month = 12 THEN 1 ELSE utc_month + 1
  /\ utc_year' = IF utc_month = 12 THEN utc_year + 1 ELSE utc_year
  /\ date_steps' = date_steps + 1
  /\ UNCHANGED <<brand_table, name_last, name_prev>>
  /\ UNCHANGED <<main, clock, tokenv, pollv, colv, extra>>

\* --------------------------------------------------- guess_column_type
\* A cell of a column is null, a string (the sequence of its characters) or
\* an integer; a series is the dtype of the column (numeric or not) and its
\* cells.
SAMPLE_SIZE == 20
MIN_NUMERIC == 3
MaxRun      == 12
MaxMixed    == 2

NullCell    == [kind |-> "null"]
StrCell(cs) == [kind |-> "str", chars |-> cs]
IntCell(n)  == [kind |-> "int", value |-> n]

\* cells that read as amounts, and cells that do not
NumberCells ==
  << StrCell(<<"$", "1", ",", "2", "0", "0">>),
     StrCell(<<"$", "3", ",", "4", "0", "0", ".", "5", "0">>),
     StrCell(<<"$", "0">>),
     StrCell(<<"-", "5", "%">>),
     IntCell(12),
     StrCell(<<".", "5">>) >>

TextCells ==
  << StrCell(<<"N", "/", "A">>),
     StrCell(<<"T", "B", "D">>),
     StrCell(<<"-", "-">>),
     StrCell(<<"1", "-", "2">>),
     StrCell(<<"1", ".", "2", ".", "3">>),
     StrCell(<<>>) >>

\* text with a digit in it
MixedCells ==
  << StrCell(<<"T", "e", "a", "m", " ", "1">>),
     StrCell(<<"Q", "2", "-", "Q", "3">>) >>

\* n cells taken in turn from cs
Run(cs, n) == [i \in 1..n |-> cs[((i - 1) % Len(cs)) + 1]]

\* the columns of non-numeric dtype: runs of the three kinds of cells, nulls
\* before and between them, the amounts before or after the text
ObjectColumns ==
  { [numeric |-> FALSE,
     cells   |-> <<NullCell>> \o Run(MixedCells, m) \o
                 (IF first THEN Run(NumberCells, n) ELSE Run(TextCells, t))
                 \o <<NullCell>> \o
                 (IF first THEN Run(TextCells, t) ELSE Run(NumberCells, n))] :
      m \in 0..MaxMixed, n \in 0..MaxRun, t \in 0..MaxRun, first \in BOOLEAN }

\* the columns of numeric dtype
NumericColumns ==
  { [numeric |-> TRUE, cells |-> Run(<<IntCell(12), IntCell(0)>>, n)] :
      n \in 0..MaxRun }

DigitChars == {"0", "1", "2", "3", "4", "5", "6", "7", "8", "9"}

\* line 1665: dropna()
IsNotNull(c) == c.kind # "null"
DropNa(cells) == SelectSeq(cells, IsNotNull)

\* line 1665: astype(str), of one cell
AsStr(c) ==
  IF c.kind = "int"
  THEN (IF c.value < 0 THEN <<"-">> \o StrDigits(0 - c.value)
        ELSE StrDigits(c.value))
  ELSE c.chars

\* line 1665: head(20)
HeadOf(cells, n) == IF Len(cells) <= n THEN cells ELSE SubSeq(cells, 1, n)

\* line 1670: re.sub(r"[^0-9.\-]", "", v)
IsKept(ch) == ch \in DigitChars \cup {".", "-"}
Cleaned(v) == SelectSeq(v, IsKept)

\* line 1672: float(cleaned) does not raise; cleaned holds digits, "." and
\* "-" only: an optional sign, then digits with at most one point
FloatParses(cleaned) ==
  LET body == IF cleaned # <<>> /\ Head(cleaned) = "-" THEN Tail(cleaned)
              ELSE cleaned
  IN  /\ \A i \in DOMAIN body : body[i] # "-"
      /\ Cardinality({i \in DOMAIN body : body[i] = "."}) <= 1
      /\ \E i \in DOMAIN body : body[i] \in DigitChars

\* lines 1668-1675: the loop over the sample
RECURSIVE CountNumericLike(_)
CountNumericLike(sample) ==
  IF sample = <<>> THEN 0
  ELSE (IF FloatParses(Cleaned(AsStr(Head(sample)))) THEN 1 ELSE 0)
       + CountNumericLike(Tail(sample))

\* a threshold of half the sample, rounded up
NumericThresholdHalfUp(n) ==
  IF (n + 1) \div 2 > MIN_NUMERIC THEN (n + 1) \div 2 ELSE MIN_NUMERIC

\* line 1676: max(3, len(sample) // 2)
NumericThreshold(n) ==
  IF n \div 2 > MIN_NUMERIC THEN n \div 2 ELSE MIN_NUMERIC

\* lines 1662-1676
guess_column_type(s) ==
  IF s.numeric THEN "num"
  ELSE LET sample == HeadOf(DropNa(s.cells), SAMPLE_SIZE)
       IN  IF sample = <<>> THEN "text"
           ELSE IF CountNumericLike(sample) >= NumericThreshold(Len(sample))
                THEN "num"
                ELSE "text"

\* a call of guess_column_type on the column
GuessColumnType ==
  /\ col_type = "none"
  /\ col_type' = guess_column_type(series)
  /\ UNCHANGED series
  /\ UNCHANGED <<main, clock, tokenv, pollv, namev, extra>>

\* ----------------------------------- the bars of the generated table
\* Numbers are counted in hundredths: 1.0 is ONE.  A percentage is a
\* fraction [num, den] with den > 0.
ONE        == 100
MaxBarRows == 3

\* cells of a bar column of dtype object, and of a numeric dtype
ObjectBarCells ==
  { StrCell(<<"$", "1", ",", "2", "0", "0">>),
    StrCell(<<"-", "5", "%">>),
    StrCell(<<".", "5">>),
    StrCell(<<"1", "5", "0">>),
    StrCell(<<"N", "/", "A">>),
    NullCell }

NumericBarCells == {IntCell(150), IntCell(-10), IntCell(0), NullCell}

SeqsUpTo(S, n) == UNION {[1..k -> S] : k \in 0..n}

BarColumns ==
  { [numeric |-> FALSE, cells |-> c] : c \in SeqsUpTo(ObjectBarCells, MaxBarRows) }
  \cup
  { [numeric |-> TRUE, cells |-> c] : c \in SeqsUpTo(NumericBarCells, MaxBarRows) }

\* texts typed into the "max (optional)" input
TypedMax ==
  { <<>>,
    <<"1", "0", "0">>,
    <<" ", "1", "0", "0", " ">>,
    <<".", "5">>,
    <<"0">>,
    <<"-", "5">>,
    <<"a", "b", "c">> }

DigitValue(ch) == CHOOSE d \in 0..9 : DigitChar(d) = ch

RECURSIVE DigitsValue(_)
DigitsValue(ds) ==
  IF ds = <<>> THEN 0
  ELSE 10 * DigitsValue(SubSeq(ds, 1, Len(ds) - 1)) + DigitValue(ds[Len(ds)])

\* float(s) for a text that FloatParses, in hundredths (two decimals kept)
FloatValue(s) ==
  LET neg  == s # <<>> /\ Head(s) = "-"
      body == IF neg THEN Tail(s) ELSE s
      dots == {i \in DOMAIN body : body[i] = "."}
      dot  == IF dots = {} THEN Len(body) + 1 ELSE CHOOSE i \in dots : TRUE
      frac == HeadOf(SubSeq(body, dot + 1, Len(body)) \o <<"0", "0">>, 2)
      mag  == ONE * DigitsValue(SubSeq(body, 1, dot - 1)) + DigitsValue(frac)
  IN  IF neg THEN 0 - mag ELSE mag

\* float(text) of Python for a text of digits, ".", "-" and other
\* characters: it raises unless the whole text is a number
StrictFloatParses(text) == text = Cleaned(text) /\ FloatParses(text)

NoOverride == [set |-> FALSE, value |-> 0]

\* lines 2632-2648: what the UI stores for the text typed
StoredOverride(typed) ==
  LET max_str == RStrip(LStrip(typed))
  IN  IF max_str = <<>> THEN NoOverride
      ELSE IF StrictFloatParses(max_str) /\ FloatValue(max_str) > 0
           THEN [set |-> TRUE, value |-> FloatValue(max_str)]
           ELSE NoOverride

\* lines 1773-1780
parse_number(v) ==
  LET s0 == IF v.kind = "null" THEN <<>> ELSE Cleaned(AsStr(v))
  IN  IF s0 = <<>> THEN 0
      ELSE IF FloatParses(s0) THEN FloatValue(s0) ELSE 0

RECURSIVE SeqMax(_)
SeqMax(vals) ==
  IF Len(vals) = 1 THEN vals[1]
  ELSE LET m == SeqMax(Tail(vals))
       IN  IF vals[1] > m THEN vals[1] ELSE m

\* a denominator that is the column's maximum whatever its sign
BarMaxNoFallback(s, override_val) ==
  IF override_val.set /\ override_val.value > 0 THEN override_val.value
  ELSE IF Len(s.cells) > 0
       THEN SeqMax([i \in DOMAIN s.cells |-> parse_number(s.cells[i])])
       ELSE 0

\* lines 1816-1836: bar_max[col]
BarMax(s, override_val) ==
  IF override_val.set /\ override_val.value > 0 THEN override_val.value
  ELSE LET m == IF Len(s.cells) > 0
                THEN SeqMax([i \in DOMAIN s.cells |-> parse_number(s.cells[i])])
                ELSE 0
       IN  IF m > 0 THEN m ELSE ONE

RatLess(a, b) == a.num * b.den < b.num * a.den
RatMin(a, b)  == IF RatLess(b, a) THEN b ELSE a
RatMax(a, b)  == IF RatLess(a, b) THEN b ELSE a
Rat(n)        == [num |-> n, den |-> 1]

\* lines 1865-1867: denom and pct
Pct(num_val, bm) ==
  LET denom == IF bm # 0 THEN bm ELSE ONE
      q     == IF denom > 0 THEN [num |-> num_val * 100, den |-> denom]
               ELSE [num |-> 0 - num_val * 100, den |-> 0 - denom]
  IN  RatMax(Rat(0), RatMin(Rat(100), q))

\* lines 1855-1884: the fills of the rows, none when the column is not
\* rendered as bars
BarFills(s, bm) ==
  IF guess_column_type(s) = "num"
  THEN [i \in DOMAIN s.cells |-> Pct(parse_number(s.cells[i]), bm)]
  ELSE <<>>

\* the user types a maximum for the bar column; the rerun stores the
\* override and renders the live preview
TypeBarMax(typed) ==
  /\ typed # bar_typed
  /\ bar_typed' = typed
  /\ bar_override' = StoredOverride(typed)
  /\ bar_max' = BarMax(bar_series, bar_override')
  /\ bar_fills' = BarFills(bar_series, bar_max')
  /\ UNCHANGED bar_series
  /\ UNCHANGED <<main, base, hist, escv, draftv, later>>

\* --------------------------------- the texts embedded in the document
\* A text is a sequence of tokens: single characters, and the names of the
\* template's placeholders, which str.replace finds wherever they stand.
\* The template's own markup is written as tokens of several characters.
Placeholders ==
  {"[[TABLE_HEAD]]", "[[TABLE_ROWS]]", "[[TITLE]]", "[[SUBTITLE]]",
   "[[BRAND_LOGO_ALT]]", "[[FOOTER_NOTES_HTML]]"}

\* lines 362-1086, the places of the placeholders
HTML_TEMPLATE_TABLE ==
  << "<title>", "[[TITLE]]", "</title>",
     "<span class=title>", "[[TITLE]]", "</span>",
     "<span class=subtitle>", "[[SUBTITLE]]", "</span>",
     "<thead><tr>", "[[TABLE_HEAD]]", "</tr></thead>",
     "<tbody>", "[[TABLE_ROWS]]", "</tbody>",
     "<div class=footer-notes>", "[[FOOTER_NOTES_HTML]]", "</div>",
     "<img alt=", "[[BRAND_LOGO_ALT]]", "/>" >>

BRAND_LOGO_ALT == <<"A", "c", "t", "i", "o", "n">>

\* texts a user may type or upload
UserTexts ==
  { <<"a">>,
    <<"<", "b", ">">>,
    <<"&">>,
    <<"\"">>,
    <<"a", "&", "l", "t", ";">>,
    <<"[[TITLE]]">>,
    <<"[[FOOTER_NOTES_HTML]]">> }

SubtitleTexts == { <<"a">>, <<"&">>, <<"[[FOOTER_NOTES_HTML]]">> }

HeaderTexts == { <<"a">>, <<"&">>, <<"<", "b", ">">>, <<"[[title]]">> }

\* footer notes: none, bold markup
NotesTexts == { <<>>, <<"*", "*", "<", "*", "*">> }

HeaderStyles == {"Keep original", "ALL CAPS"}

\* str.replace(old, new) for a one-token old
RECURSIVE Replace(_, _, _)
Replace(text, old, new) ==
  IF text = <<>> THEN <<>>
  ELSE (IF Head(text) = old THEN new ELSE <<Head(text)>>)
       \o Replace(Tail(text), old, new)

\* html.escape that leaves the quotes (quote=False)
EscapeNoQuote(text) ==
  Replace(Replace(Replace(text,
    "&", <<"&", "a", "m", "p", ";">>),
    "<", <<"&", "l", "t", ";">>),
    ">", <<"&", "g", "t", ";">>)

\* html.escape(s, quote=True), the default
Escape(text) ==
  Replace(Replace(Replace(Replace(Replace(text,
    "&", <<"&", "a", "m", "p", ";">>),
    "<", <<"&", "l", "t", ";">>),
    ">", <<"&", "g", "t", ";">>),
    "\"", <<"&", "q", "u", "o", "t", ";">>),
    "'", <<"&", "#", "x", "2", "7", ";">>)

\* str.upper of one token
UpperToken(tok) ==
  CASE tok = "a" -> "A"
    [] tok = "b" -> "B"
    [] tok = "l" -> "L"
    [] tok = "t" -> "T"
    [] tok = "[[title]]" -> "[[TITLE]]"
    [] OTHER -> tok

\* lines 1678-1703
format_column_header(col_name, mode) ==
  IF mode = "Keep original" THEN col_name
  ELSE [i \in DOMAIN col_name |-> UpperToken(col_name[i])]

\* lines 1766-1767: re.sub(r"\*\*(.+?)\*\*", r"<strong>\1</strong>", escaped)
\* for notes with at most one bold span
Strong(text) ==
  LET opens == {i \in 1..(Len(text) - 1) : text[i] = "*" /\ text[i + 1] = "*"}
      a     == IF opens = {} THEN 0
               ELSE CHOOSE i \in opens : \A j \in opens : i <= j
      closes == {i \in opens : i >= a + 3}
      b     == IF closes = {} THEN 0
               ELSE CHOOSE i \in closes : \A j \in closes : i <= j
  IN  IF a = 0 \/ b = 0 THEN text
      ELSE SubSeq(text, 1, a - 1) \o <<"<strong>">> \o SubSeq(text, a + 2, b - 1)
           \o <<"</strong>">> \o SubSeq(text, b + 2, Len(text))

\* lines 1762-1770, the notes being shown
FooterNotesHtml(notes) == IF notes = <<>> THEN <<>> ELSE Strong(Escape(notes))

\* lines 1838-1850
TableHead(header, mode) ==
  <<"<th>">> \o Escape(format_column_header(header, mode)) \o <<"</th>">>

\* lines 1855-1886, a cell that is not a bar
TableRows(val) ==
  <<"<tr><td><div title=\"">> \o Escape(val) \o <<"\">">> \o Escape(val)
    \o <<"</div></td></tr>">>

\* lines 1932-1958: the chain of replacements, in its order
GenerateHtml(title, subtitle, notes, mode, header, val) ==
  Replace(Replace(Replace(Replace(Replace(Replace(HTML_TEMPLATE_TABLE,
    "[[TABLE_HEAD]]", TableHead(header, mode)),
    "[[TABLE_ROWS]]", TableRows(val)),
    "[[TITLE]]", Escape(title)),
    "[[SUBTITLE]]", Escape(subtitle)),
    "[[BRAND_LOGO_ALT]]", Escape(BRAND_LOGO_ALT)),
    "[[FOOTER_NOTES_HTML]]", FooterNotesHtml(notes))

\* the rerun after an event renders the live preview
RenderTexts ==
  esc_html' = GenerateHtml(esc_title', esc_subtitle', esc_notes', esc_style',
                           esc_header', esc_cell')

EditTitleText(t) ==
  /\ t # esc_title
  /\ esc_title' = t
  /\ UNCHANGED <<esc_subtitle, esc_notes, esc_style, esc_header, esc_cell>>
  /\ RenderTexts
  /\ UNCHANGED <<main, base, hist, barv, draftv, later>>

EditSubtitleText(t) ==
  /\ t # esc_subtitle
  /\ esc_subtitle' = t
  /\ UNCHANGED <<esc_title, esc_notes, esc_style, esc_header, esc_cell>>
  /\ RenderTexts
  /\ UNCHANGED <<main, base, hist, barv, draftv, later>>

EditFooterNotes(n) ==
  /\ n # esc_notes
  /\ esc_notes' = n
  /\ UNCHANGED <<esc_title, esc_subtitle, esc_style, esc_header, esc_cell>>
  /\ RenderTexts
  /\ UNCHANGED <<main, base, hist, barv, draftv, later>>

SelectHeaderStyle(m) ==
  /\ m # esc_style
  /\ esc_style' = m
  /\ UNCHANGED <<esc_title, esc_subtitle, esc_notes, esc_header, esc_cell>>
  /\ RenderTexts
  /\ UNCHANGED <<main, base, hist, barv, draftv, later>>

\* a CSV with one column and one row is uploaded
UploadTexts(h, c) ==
  /\ <<h, c>> # <<esc_header, esc_cell>>
  /\ esc_header' = h
  /\ esc_cell' = c
  /\ UNCHANGED <<esc_title, esc_subtitle, esc_notes, esc_style>>
  /\ RenderTexts
  /\ UNCHANGED <<main, base, hist, barv, draftv, later>>

\* ------------------------------ draft settings and confirmed snapshot
\* The dict of the per-column maxima is an object: the session key and a
\* configuration both hold a reference to it.  The heap has two objects:
\* FRESH_DICT, the {} that draft_config_from_state made while the key was
\* absent, and SESSION_DICT, the one line 2148 stored under the key.
FRESH_DICT   == 1
SESSION_DICT == 2

\* the entry of the bar column in a dict: none, or what the UI stored
NoEntryForCol == [has |-> FALSE, val |-> NoOverride]
EntryForCol(o) == [has |-> TRUE, val |-> o]

BarSelections == { <<>>, <<"col">> }
DraftMaxTexts == { <<>>, <<"1", "0", "0">>, <<".", "5">> }

\* str(existing_val), line 2634: "" or the float's repr
StrOfEntry(e) ==
  IF ~e.has \/ ~e.val.set THEN <<>>
  ELSE StrDigits(e.val.value \div ONE) \o <<".">>
       \o (IF e.val.value % ONE = 0 THEN <<"0">>
           ELSE IF e.val.value % 10 = 0
                THEN <<DigitChar((e.val.value % ONE) \div 10)>>
                ELSE <<DigitChar((e.val.value % ONE) \div 10),
                       DigitChar(e.val.value % 10)>>)

\* lines 1984-2007 for these settings: the configuration holds the
\* session's objects themselves
DraftConfig(title, striped, bar_columns, overrides) ==
  [title |-> title, striped |-> striped, bar_columns |-> bar_columns,
   bar_max_overrides |-> overrides]

\* a configuration as Python compares and prints it: its dict by content
CfgValue(cfg, h) ==
  IF cfg.bar_max_overrides \in DOMAIN h
  THEN [cfg EXCEPT !.bar_max_overrides = h[cfg.bar_max_overrides]]
  ELSE cfg

\* lines 1965-1967: the repr of every value
stable_config_hash(cfg, h) == [repr |-> CfgValue(cfg, h)]

\* lines 2010-2037: the document of a dataset and a configuration
HtmlOfConfig(cfg, h) == [kind |-> "table", cfg |-> CfgValue(cfg, h)]

\* lines 2624-2648 of a rerun: the dict under the session key is written in
\* place for every selected bar column
BarsRerun ==
  heap' = IF bt_bar_columns' # <<>>
          THEN [heap EXCEPT ![bt_bar_max_overrides] =
                              EntryForCol(StoredOverride(max_typed'))]
          ELSE heap

EditDraftTitle(t) ==
  /\ t # draft_title
  /\ draft_title' = t
  /\ UNCHANGED <<bt_striped_rows, bt_bar_columns, max_typed>>
  /\ BarsRerun
  /\ UNCHANGED <<bt_bar_max_overrides, confirmed_cfg, bt_confirmed_hash,
                 html_code, snapshot_taken, snap>>
  /\ UNCHANGED <<main, base, hist, barv, escv, later>>

ToggleStripedRows ==
  /\ bt_striped_rows' = ~bt_striped_rows
  /\ UNCHANGED <<draft_title, bt_bar_columns, max_typed>>
  /\ BarsRerun
  /\ UNCHANGED <<bt_bar_max_overrides, confirmed_cfg, bt_confirmed_hash,
                 html_code, snapshot_taken, snap>>
  /\ UNCHANGED <<main, base, hist, barv, escv, later>>

\* the multiselect; a text input that appears shows the dict's entry
SelectBarColumns(cols) ==
  /\ cols # bt_bar_columns
  /\ bt_bar_columns' = cols
  /\ max_typed' = IF cols = <<>> THEN <<>>
                  ELSE StrOfEntry(heap[bt_bar_max_overrides])
  /\ UNCHANGED <<draft_title, bt_striped_rows>>
  /\ BarsRerun
  /\ UNCHANGED <<bt_bar_max_overrides, confirmed_cfg, bt_confirmed_hash,
                 html_code, snapshot_taken, snap>>
  /\ UNCHANGED <<main, base, hist, barv, escv, later>>

TypeDraftMax(t) ==
  /\ bt_bar_columns # <<>>
  /\ t # max_typed
  /\ max_typed' = t
  /\ UNCHANGED <<draft_title, bt_striped_rows, bt_bar_columns>>
  /\ BarsRerun
  /\ UNCHANGED <<bt_bar_max_overrides, confirmed_cfg, bt_confirmed_hash,
                 html_code, snapshot_taken, snap>>
  /\ UNCHANGED <<main, base, hist, barv, escv, later>>

\* "Confirm & Save": lines 2152-2165, then the rerun
ConfirmDraft ==
  LET cfg == DraftConfig(draft_title, bt_striped_rows, bt_bar_columns,
                         bt_bar_max_overrides)
  IN  /\ confirmed_cfg' = cfg
      /\ bt_confirmed_hash' = stable_config_hash(cfg, heap)
      /\ html_code' = HtmlOfConfig(cfg, heap)
      /\ snapshot_taken' = TRUE
      /\ snap' = [cfg  |-> CfgValue(cfg, heap),
                  hash |-> stable_config_hash(cfg, heap),
                  html |-> HtmlOfConfig(cfg, heap)]
      /\ UNCHANGED <<draft_title, bt_striped_rows, bt_bar_columns, max_typed>>
      /\ BarsRerun
      /\ UNCHANGED bt_bar_max_overrides
      /\ UNCHANGED <<main, base, hist, barv, escv, later>>

\* the token acquisition while the publishing workflow is modelled with
\* ------------------------------------------- the table widget (lines 1094-1281)
\* The script of the generated document.  A data row is named by its
\* data-idx (line 1138); its cells are texts, a text being a sequence of
\* characters.
MaxRows      == 11     \* data rows of the generated document
DEFAULT_SIZE == 10     \* <option value="10" selected>, and `|| 10` at line 1140
ALL_ROWS     == 0      \* <option value="0">All</option>

\* lines 1030-1036: the options of the Rows/Page select
SizeOptions == {5, 10, 15, 20, 25, 30, ALL_ROWS}

\* the columns of the document: a text column and a numeric one (data-type)
WidgetColumns == {1, 2}
ColumnDataType(col) == IF col = 1 THEN "text" ELSE "num"

TextCellOf(r) ==
  CASE r % 3 = 1 -> <<"b">>
    [] r % 3 = 2 -> <<"A">>
    [] OTHER     -> <<"a", "b">>

\* the numeric column has an empty cell (NaN is shown as "")
NumCellOf(r) ==
  CASE r % 4 = 1 -> <<"2">>
    [] r % 4 = 2 -> <<"1", "0">>
    [] r % 4 = 3 -> <<"1">>
    [] OTHER     -> <<>>

\* lines 1853-1885: a document of n rows, one <td> per column
Document(n) == [r \in 1..n |-> <<TextCellOf(r), NumCellOf(r)>>]

\* one row, more than one page of 5, more than two pages of 5
DocumentSizes == {1, MaxRows \div 2 + 1, MaxRows}

\* what is typed into the search field
SearchTexts ==
  { <<>>, <<"a">>, <<"A", " ">>, <<"b", "1">>, <<"1">>, <<"z">> }

TAB == "\t"

\* String.prototype.toLowerCase
ToLowerCase(text) ==
  [i \in DOMAIN text |-> CASE text[i] = "A" -> "a"
                           [] text[i] = "B" -> "b"
                           [] OTHER -> text[i]]

\* String.prototype.trim
Trim(text) == RStrip(LStrip(text))

\* String.prototype.includes
Includes(text, part) ==
  \E k \in 0..(Len(text) - Len(part)) : SubSeq(text, k + 1, k + Len(part)) = part

\* tr.innerText (line 1201).  For a row that is being rendered the cells
\* are separated by a tab; for a row with display:none innerText is the
\* textContent, and line 1888 joins the <td> elements with nothing between.
InnerText(row, onDisplay) ==
  IF onDisplay THEN row[1] \o <<TAB>> \o row[2] ELSE row[1] \o row[2]

\* lines 1198-1202 (the rows given are never the dw-empty row)
matchesFilter(row, onDisplay, flt) ==
  IF flt = <<>> THEN TRUE
  ELSE Includes(ToLowerCase(InnerText(row, onDisplay)), flt)

\* line 1156: the trimmed innerText of one cell; the cells of the document
\* hold no white space, so it is the cell's text whether rendered or not
textOf(row, col) == Trim(row[col])

\* the order of the UTF-16 code units of the lower-case texts
CodeUnits == <<"a", "b">>
CodeOf(ch) == CHOOSE i \in DOMAIN CodeUnits : CodeUnits[i] = ch

\* v1 < v2 for two strings
RECURSIVE StringLess(_, _)
StringLess(v1, v2) ==
  IF v2 = <<>> THEN FALSE
  ELSE IF v1 = <<>> THEN TRUE
  ELSE IF Head(v1) # Head(v2) THEN CodeOf(Head(v1)) < CodeOf(Head(v2))
  ELSE StringLess(Tail(v1), Tail(v2))

\* lines 1181-1182: parseFloat of the digits, NaN becoming -Infinity
NumberLess(v1, v2) ==
  IF v2 = <<>> THEN FALSE
  ELSE IF v1 = <<>> THEN TRUE
  ELSE DigitsValue(v1) < DigitsValue(v2)

\* lines 1170 and 1178-1190: the comparator is negative for (a, b); "idx" is
\* the comparison of data-idx that restores the document order
ComparesBefore(doc, col, dir, a, b) ==
  LET v1 == textOf(doc[a], col)
      v2 == textOf(doc[b], col)
      less(x, y) == IF ColumnDataType(col) = "num" THEN NumberLess(x, y)
                    ELSE StringLess(ToLowerCase(x), ToLowerCase(y))
  IN  IF dir = "idx" THEN a < b
      ELSE IF dir = "asc" THEN less(v1, v2)
      ELSE less(v2, v1)

\* Array.prototype.sort is stable: a row goes before the first row it
\* compares before
RECURSIVE InsertRow(_, _, _, _, _)
InsertRow(sorted, x, doc, col, dir) ==
  IF sorted = <<>> THEN <<x>>
  ELSE IF ComparesBefore(doc, col, dir, x, Head(sorted)) THEN <<x>> \o sorted
  ELSE <<Head(sorted)>> \o InsertRow(Tail(sorted), x, doc, col, dir)

RECURSIVE SortRows(_, _, _, _)
SortRows(rows, doc, col, dir) ==
  IF rows = <<>> THEN <<>>
  ELSE InsertRow(SortRows(SubSeq(rows, 1, Len(rows) - 1), doc, col, dir),
                 rows[Len(rows)], doc, col, dir)

\* a cycle that never returns to the document order
NextSortNoReset(current) == IF current = "asc" THEN "desc" ELSE "asc"

\* line 1161
NextSort(current) ==
  IF current = "none" THEN "asc" ELSE IF current = "asc" THEN "desc" ELSE "none"

\* lines 1163-1167
AllUnsorted == [col \in WidgetColumns |-> "none"]

Ceil(a, b) == (a + b - 1) \div b
MaxOf(a, b) == IF a > b THEN a ELSE b
MinOf(a, b) == IF a < b THEN a ELSE b

\* a slice that starts one page late
SliceStartNextPage(pg, size) == pg * size

\* line 1234
SliceStart(pg, size) == (pg - 1) * size

\* lines 1211-1248: renderPage, from the rows in DOM order, the rows on
\* display before the call and the script's variables
renderPage(doc, ordered, displayed, flt, pg, size, pager, prev, next) ==
  LET vis   == SelectSeq(ordered,
                 LAMBDA r : matchesFilter(doc[r], r \in displayed, flt))
      total == Len(vis)
      pages == MaxOf(1, Ceil(total, size))
      p     == MinOf(MaxOf(1, pg), pages)
      start == SliceStart(p, size)
      end   == start + size
  IN  IF total = 0
      THEN [visible |-> vis, shown |-> {}, empty |-> TRUE, page |-> pg,
            prev |-> IF pager THEN TRUE ELSE prev,
            next |-> IF pager THEN TRUE ELSE next]
      ELSE IF ~pager \/ size = 0
      THEN [visible |-> vis, shown |-> {vis[i] : i \in DOMAIN vis},
            empty |-> FALSE, page |-> pg,
            prev |-> IF pager THEN TRUE ELSE prev,
            next |-> IF pager THEN TRUE ELSE next]
      ELSE [visible |-> vis,
            shown |-> {vis[i] : i \in {j \in DOMAIN vis : start < j /\ j <= end}},
            empty |-> FALSE, page |-> p,
            prev |-> (p <= 1), next |-> (p >= pages)]

\* the state after a renderPage call with the given order, filter, page and size
Rendered(ordered, flt, pg, size) ==
  LET r == renderPage(w_doc, ordered, shown, flt, pg, size, hasPager,
                      prevBtn_disabled, nextBtn_disabled)
  IN  /\ tb_rows' = ordered
      /\ filter' = flt
      /\ pageSize' = size
      /\ visible' = r.visible
      /\ shown' = r.shown
      /\ emptyRow_shown' = r.empty
      /\ page' = r.page
      /\ prevBtn_disabled' = r.prev
      /\ nextBtn_disabled' = r.next

\* lines 1158-1196: a header is clicked, or activated with Enter or Space
sortBy(col) ==
  /\ w_doc # <<>>
  /\ LET next == NextSort(heads_sort[col]) IN
       IF next = "none"
       THEN /\ heads_sort' = AllUnsorted
            /\ Rendered(SortRows(tb_rows, w_doc, col, "idx"),
                        filter, page, pageSize)
       ELSE /\ heads_sort' = [AllUnsorted EXCEPT ![col] = next]
            /\ Rendered(SortRows(tb_rows, w_doc, col, next),
                        filter, page, pageSize)
  /\ UNCHANGED <<w_doc, hasPager, hasSearch, searchInput_value, timer_set>>
  /\ UNCHANGED outside_widget

\* lines 1253-1261: a text is typed; the filter follows 120 ms later
SearchInput(text) ==
  /\ w_doc # <<>>
  /\ hasSearch
  /\ text # searchInput_value
  /\ searchInput_value' = text
  /\ timer_set' = TRUE
  /\ UNCHANGED <<w_doc, hasPager, hasSearch, tb_rows, heads_sort, pageSize,
                 page, filter, visible, shown, emptyRow_shown,
                 prevBtn_disabled, nextBtn_disabled>>
  /\ UNCHANGED outside_widget

\* lines 1256-1260: the timeout reads the field as it is now
SearchTimeout ==
  /\ timer_set
  /\ timer_set' = FALSE
  /\ Rendered(tb_rows, Trim(ToLowerCase(searchInput_value)), 1, pageSize)
  /\ UNCHANGED <<w_doc, hasPager, hasSearch, heads_sort, searchInput_value>>
  /\ UNCHANGED outside_widget

\* lines 1262-1269: the clear button, on screen while the field has a value
\* (line 727); a pending timeout is not cancelled
ClearSearch ==
  /\ w_doc # <<>>
  /\ hasSearch
  /\ searchInput_value # <<>>
  /\ searchInput_value' = <<>>
  /\ Rendered(tb_rows, <<>>, 1, pageSize)
  /\ UNCHANGED <<w_doc, hasPager, hasSearch, heads_sort, timer_set>>
  /\ UNCHANGED outside_widget

\* lines 1274-1278
SizeChange(value) ==
  /\ w_doc # <<>>
  /\ hasPager
  /\ value # pageSize
  /\ Rendered(tb_rows, filter, 1, value)
  /\ UNCHANGED <<w_doc, hasPager, hasSearch, heads_sort, searchInput_value,
                 timer_set>>
  /\ UNCHANGED outside_widget

\* line 1279; a disabled button does not fire click
PrevClick ==
  /\ w_doc # <<>>
  /\ hasPager
  /\ ~prevBtn_disabled
  /\ Rendered(tb_rows, filter, page - 1, pageSize)
  /\ UNCHANGED <<w_doc, hasPager, hasSearch, heads_sort, searchInput_value,
                 timer_set>>
  /\ UNCHANGED outside_widget

\* line 1280
NextClick ==
  /\ w_doc # <<>>
  /\ hasPager
  /\ ~nextBtn_disabled
  /\ Rendered(tb_rows, filter, page + 1, pageSize)
  /\ UNCHANGED <<w_doc, hasPager, hasSearch, heads_sort, searchInput_value,
                 timer_set>>
  /\ UNCHANGED outside_widget

\* --------------------------------- the table name (lines 2672-2686)
MaxNameLen == 4

\* what can be typed: a letter of either case, a digit, the two characters
\* that are kept, white space, and characters that are removed
NameChars == {"A", "b", "7", "-", "_", " ", "/", "."}

WhiteSpace   == {" ", TAB}
AsciiLetters == {"A", "B", "a", "b"}
AsciiDigits  == {"7"}

\* str.strip(chars) / str.strip() with the white space
RECURSIVE LStripChars(_, _)
LStripChars(text, chars) ==
  IF text # <<>> /\ Head(text) \in chars THEN LStripChars(Tail(text), chars)
  ELSE text

RECURSIVE RStripChars(_, _)
RStripChars(text, chars) ==
  IF text # <<>> /\ text[Len(text)] \in chars
  THEN RStripChars(SubSeq(text, 1, Len(text) - 1), chars)
  ELSE text

StripChars(text, chars) == RStripChars(LStripChars(text, chars), chars)

\* line 2681: re.sub(r"[^A-Za-z0-9\-\_\s]", "", ...)
RemoveOthers(text) ==
  SelectSeq(text, LAMBDA ch : ch \in AsciiLetters \cup AsciiDigits
                                     \cup {"-", "_"} \cup WhiteSpace)

\* line 2682: re.sub(r"\s+", "-", ...): one "-" for every run of white space
RECURSIVE SpacesToDash(_)
SpacesToDash(text) ==
  IF text = <<>> THEN <<>>
  ELSE IF Head(text) \in WhiteSpace
       THEN <<"-">> \o SpacesToDash(LStripChars(text, WhiteSpace))
       ELSE <<Head(text)>> \o SpacesToDash(Tail(text))

\* a derivation that keeps the dashes at the ends
KeepDashes(text) == text

\* line 2682: .strip("-")
StripDashes(text) == StripChars(text, {"-"})

\* str.lower
Lower(text) ==
  [i \in DOMAIN text |-> CASE text[i] = "A" -> "a"
                           [] text[i] = "B" -> "b"
                           [] OTHER -> text[i]]

FALLBACK_STEM == <<"t", "a", "b", "l", "e">>
HTML_SUFFIX   == <<".", "h", "t", "m", "l">>

\* lines 2679-2684, for the stripped text of the field
WidgetFileNameOf(words) ==
  IF words = <<>> THEN <<>>
  ELSE LET safe1 == StripChars(RemoveOthers(words), WhiteSpace)
           safe2 == StripDashes(SpacesToDash(safe1))
           safe3 == IF Lower(safe2) = <<>> THEN FALLBACK_STEM ELSE Lower(safe2)
       IN  safe3 \o HTML_SUFFIX

\* the rerun after the field changed: lines 2672-2686 and 2751-2759, with
\* a token, an owner and a creator, and no page of that name yet
TableNameRerun ==
  /\ table_name_words' = StripChars(tn_typed', WhiteSpace)
  /\ tn_file_name' = WidgetFileNameOf(table_name_words')
  /\ tn_can_publish' = CanPublish(tn_html_generated', Join(tn_file_name'),
                                  "pat", FALSE, FALSE)

\* one more character is typed and committed
TypeNameChar(ch) ==
  /\ Len(tn_typed) < MaxNameLen
  /\ tn_typed' = Append(tn_typed, ch)
  /\ UNCHANGED tn_html_generated
  /\ TableNameRerun
  /\ UNCHANGED outside_table_name

\* the field is emptied
ClearTableName ==
  /\ tn_typed # <<>>
  /\ tn_typed' = <<>>
  /\ UNCHANGED tn_html_generated
  /\ TableNameRerun
  /\ UNCHANGED outside_table_name

\* TokenOutcomes: nothing is acquired, the clock stands still
TokenIdle ==
  /\ now = 0
  /\ ticks = 0
  /\ GITHUB_APP_ID = app_installed
  /\ GITHUB_APP_PRIVATE_KEY = app_installed
  /\ installation = app_installed
  /\ token_cache = NoEntry
  /\ token_issued = 0
  /\ token_at = 0
  /\ token_calls = <<>>
  /\ exists_checked = FALSE
  /\ jwt = NoJwt
  /\ jwt_now = 0

\* wait_until_pages_live not called
PollIdle ==
  /\ wl_url = NoUrl
  /\ wl_timeout = 0
  /\ wl_pc = "idle"
  /\ wl_end = 0
  /\ wl_live = "none"
  /\ wl_polls = <<>>

NoName == [name |-> "", year |-> 0, month |-> 0, day |-> 0]

\* suggested_repo_name not called
NameIdle ==
  /\ brand_table = ""
  /\ utc_year = 0
  /\ utc_month = 0
  /\ utc_day = 0
  /\ date_steps = 0
  /\ name_last = NoName
  /\ name_prev = NoName

\* guess_column_type not called
ColumnIdle ==
  /\ series = <<>>
  /\ col_type = "none"

\* no bar column
BarIdle ==
  /\ bar_series = [numeric |-> FALSE, cells |-> <<>>]
  /\ bar_typed = <<>>
  /\ bar_override = NoOverride
  /\ bar_max = 0
  /\ bar_fills = <<>>

\* no text rendered
EscIdle ==
  /\ esc_title = <<>>
  /\ esc_subtitle = <<>>
  /\ esc_notes = <<>>
  /\ esc_style = "Keep original"
  /\ esc_header = <<>>
  /\ esc_cell = <<>>
  /\ esc_html = <<>>

NoSnap == [cfg |-> <<>>, hash |-> <<>>, html |-> <<>>]

\* no draft edited
DraftIdle ==
  /\ draft_title = ""
  /\ bt_striped_rows = TRUE
  /\ bt_bar_columns = <<>>
  /\ max_typed = <<>>
  /\ heap = <<>>
  /\ bt_bar_max_overrides = 0
  /\ confirmed_cfg = <<>>
  /\ bt_confirmed_hash = <<>>
  /\ html_code = <<>>
  /\ snapshot_taken = FALSE
  /\ snap = NoSnap

\* no document loaded
WidgetIdle ==
  /\ w_doc = <<>>
  /\ hasPager = FALSE
  /\ hasSearch = FALSE
  /\ tb_rows = <<>>
  /\ heads_sort = AllUnsorted
  /\ pageSize = 0
  /\ page = 1
  /\ filter = <<>>
  /\ searchInput_value = <<>>
  /\ timer_set = FALSE
  /\ visible = <<>>
  /\ shown = {}
  /\ emptyRow_shown = FALSE
  /\ prevBtn_disabled = FALSE
  /\ nextBtn_disabled = FALSE

\* no table name typed
TableNameIdle ==
  /\ tn_typed = <<>>
  /\ table_name_words = <<>>
  /\ tn_file_name = <<>>
  /\ tn_html_generated = FALSE
  /\ tn_can_publish = FALSE

LaterIdle == WidgetIdle /\ TableNameIdle

SideIdle == BarIdle /\ EscIdle /\ DraftIdle /\ LaterIdle

\* nothing in the uploader, overwrite never ticked
HistIdle ==
  /\ df_uploaded_now = NoDf
  /\ swap_given_for = ""

ExtraIdle == SideIdle /\ HistIdle

\* one deployment without credentials and without a repository, no upload
MainIdle ==
  /\ MainInit
  /\ ~GITHUB_PAT /\ ~app_installed
  /\ ~repo_exists

\* a call of wait_until_pages_live with some url and some timeout_sec
InitPoll ==
  /\ ExtraIdle
  /\ MainIdle
  /\ TokenIdle
  /\ NameIdle
  /\ ColumnIdle
  /\ wl_url \in {NoUrl, compute_pages_url(PUBLISH_OWNER, REPO_NAME, "a.html")}
  /\ wl_timeout \in PollTimeouts
  /\ wl_pc = "start"
  /\ wl_end = 0
  /\ wl_live = "none"
  /\ wl_polls = <<>>

\* some brand, some UTC date, suggested_repo_name not yet called
InitName ==
  /\ ExtraIdle
  /\ MainIdle
  /\ TokenIdle
  /\ PollIdle
  /\ ColumnIdle
  /\ brand_table \in BrandInputs
  /\ utc_year \in Years
  /\ utc_month \in 1..12
  /\ utc_day = 1
  /\ date_steps = 0
  /\ name_last = NoName
  /\ name_prev = NoName

\* some column, guess_column_type not yet called
InitColumn ==
  /\ ExtraIdle
  /\ MainIdle
  /\ TokenIdle
  /\ PollIdle
  /\ NameIdle
  /\ series \in ObjectColumns \cup NumericColumns
  /\ col_type = "none"

BaseIdle == TokenIdle /\ PollIdle /\ NameIdle /\ ColumnIdle

\* a dataset with one bar column, after the rerun that selected it: the
\* maximum is blank
InitBar ==
  /\ MainIdle
  /\ HistIdle
  /\ BaseIdle
  /\ EscIdle
  /\ DraftIdle
  /\ LaterIdle
  /\ bar_series \in BarColumns
  /\ bar_typed = <<>>
  /\ bar_override = StoredOverride(<<>>)
  /\ bar_max = BarMax(bar_series, bar_override)
  /\ bar_fills = BarFills(bar_series, bar_max)

\* the first rerun after the upload of a plain one-cell table
InitEsc ==
  /\ MainIdle
  /\ HistIdle
  /\ BaseIdle
  /\ BarIdle
  /\ DraftIdle
  /\ LaterIdle
  /\ esc_title = <<"a">>
  /\ esc_subtitle = <<"a">>
  /\ esc_notes = <<>>
  /\ esc_style = "Keep original"
  /\ esc_header = <<"a">>
  /\ esc_cell = <<"a">>
  /\ esc_html = GenerateHtml(esc_title, esc_subtitle, esc_notes, esc_style,
                             esc_header, esc_cell)

\* the first rerun after an upload: ensure_confirm_state_exists stored the
\* default configuration, made while bt_bar_max_overrides was absent, then
\* line 2148 stored a dict under the key
InitDraft ==
  /\ MainIdle
  /\ HistIdle
  /\ BaseIdle
  /\ BarIdle
  /\ EscIdle
  /\ LaterIdle
  /\ draft_title = "Table 1"
  /\ bt_striped_rows = TRUE
  /\ bt_bar_columns = <<>>
  /\ max_typed = <<>>
  /\ heap = <<NoEntryForCol, NoEntryForCol>>
  /\ bt_bar_max_overrides = SESSION_DICT
  /\ confirmed_cfg = DraftConfig("Table 1", TRUE, <<>>, FRESH_DICT)
  /\ bt_confirmed_hash = stable_config_hash(confirmed_cfg, heap)
  /\ html_code = ""
  /\ snapshot_taken = FALSE
  /\ snap = NoSnap

\* a deployment with a personal token
InitUpload ==
  /\ MainInit
  /\ BaseIdle
  /\ ExtraIdle
  /\ GITHUB_PAT /\ ~app_installed

\* a session that has uploaded a CSV, confirmed it and typed a table name
SessionConfirmed ==
  /\ bt_uploaded_name = "one.csv"
  /\ bt_df_uploaded = 1
  /\ bt_df_confirmed = 1
  /\ bt_widget_title = "Table 1"
  /\ bt_confirmed_cfg = draft_config_from_state("Table 1")
  /\ bt_html_code = html_from_config(1, draft_config_from_state("Table 1"))
  /\ bt_html_generated = TRUE
  /\ bt_last_published_url = NoUrl
  /\ bt_iframe_code = NoIframe
  /\ bt_allow_swap = FALSE
  /\ bt_table_name_words = "a"
  /\ snapshot_html = html_from_config(1, draft_config_from_state("Table 1"))

\* any deployment (personal token, app id, private key, installation), the
\* confirmed session before the first rerun of the embed tab
InitToken ==
  /\ ExtraIdle
  /\ GITHUB_PAT \in BOOLEAN
  /\ GITHUB_APP_ID \in BOOLEAN
  /\ GITHUB_APP_PRIVATE_KEY \in BOOLEAN
  /\ installation \in BOOLEAN
  /\ app_installed = (GITHUB_APP_ID /\ GITHUB_APP_PRIVATE_KEY /\ installation)
  /\ SessionConfirmed
  /\ installation_token = ""
  /\ file_exists = FALSE
  /\ can_publish = FALSE
  /\ live_preview_html = html_from_config(1, draft_config_from_state("Table 1"))
  /\ ProviderInit
  /\ LocalsInit
  /\ now = 0
  /\ ticks = 0
  /\ token_cache = NoEntry
  /\ token_issued = 0
  /\ token_at = 0
  /\ token_calls = <<>>
  /\ exists_checked = FALSE
  /\ jwt = NoJwt
  /\ jwt_now = 0
  /\ PollIdle
  /\ NameIdle
  /\ ColumnIdle

\* ------------------------------------------------------- specifications
Init == MainInit /\ TokenIdle /\ PollIdle /\ NameIdle /\ ColumnIdle /\ ExtraIdle

UIEvent ==
  \/ \E n \in CsvNames, d \in Data : UploadCSV(n, d)
  \/ \E t \in Titles : EditDraft(t)
  \/ ConfirmAndSave
  \/ \E w \in TableNameWords : EnterTableName(w)
  \/ ToggleOverwrite
  \/ ClickPublish

PublishStep ==
  \/ EnsureRepoGet
  \/ EnsureRepoCreate
  \/ EnsurePagesGet
  \/ EnsurePagesEnable
  \/ UploadGet
  \/ UploadPut
  \/ ComputeUrl
  \/ Poll
  \/ PollTimeout

Next == UIEvent \/ PublishStep

\* one session, single in-flight publish
Spec == Init /\ [][Next]_vars

OtherStep ==
  \/ \E path \in FileNames : OtherUploadGet(path)
  \/ OtherUploadPut

\* this session uploads one CSV, confirms, names the page and publishes,
\* while the other session uploads to the same repository
NextConc ==
  \/ UploadCSV("one.csv", 1)
  \/ ConfirmAndSave
  \/ \E w \in TableNameWords : EnterTableName(w)
  \/ ToggleOverwrite
  \/ ClickPublish
  \/ PublishStep
  \/ OtherStep

\* two sessions publishing to the same repository
SpecConc == Init /\ [][NextConc]_vars

\* this session uploads one CSV, confirms, names the page and publishes,
\* and clicks again after an invocation that failed
NextRetry ==
  \/ UploadCSV("one.csv", 1)
  \/ ConfirmAndSave
  \/ \E w \in TableNameWords : EnterTableName(w)
  \/ ToggleOverwrite
  \/ ClickPublishAgain
  \/ PublishStep

\* one session, publish invocations with the outcome of the run before
SpecRetry == Init /\ [][NextRetry]_vars

NextToken ==
  \/ \E clicked \in BOOLEAN : EmbedTabToken(clicked)
  \/ \E d \in ClockSteps : Tick(d)

\* the embed tab rerun again and again while time passes
SpecToken == InitToken /\ [][NextToken]_vars

NextPoll ==
  \/ WaitStart
  \/ WaitTest
  \/ WaitRequest
  \/ WaitSleep

NextName ==
  \/ NameCall
  \/ LaterSameMonth
  \/ FollowingMonth

\* calls of suggested_repo_name while the UTC date moves on
SpecName == InitName /\ [][NextName]_vars

NextBar == \E typed \in TypedMax : TypeBarMax(typed)

\* the bars rendered while the user types maxima
SpecBar == InitBar /\ [][NextBar]_vars

NextEsc ==
  \/ \E t \in UserTexts : EditTitleText(t)
  \/ \E t \in SubtitleTexts : EditSubtitleText(t)
  \/ \E n \in NotesTexts : EditFooterNotes(n)
  \/ \E m \in HeaderStyles : SelectHeaderStyle(m)
  \/ \E h \in HeaderTexts, c \in UserTexts : UploadTexts(h, c)

\* the document rendered while the user edits the texts
SpecEsc == InitEsc /\ [][NextEsc]_vars

NextDraft ==
  \/ \E t \in Titles : EditDraftTitle(t)
  \/ ToggleStripedRows
  \/ \E cols \in BarSelections : SelectBarColumns(cols)
  \/ \E t \in DraftMaxTexts : TypeDraftMax(t)
  \/ ConfirmDraft

\* the draft settings edited and confirmed
SpecDraft == InitDraft /\ [][NextDraft]_vars

\* line 1650: the document after the script's first renderPage.  Before it
\* every data row is displayed, the buttons are enabled and the select
\* shows 10 (line 1140: pageSize is 0 without a pager).
InitWidget ==
  /\ MainIdle
  /\ HistIdle
  /\ BaseIdle
  /\ BarIdle
  /\ EscIdle
  /\ DraftIdle
  /\ TableNameIdle
  /\ \E n \in DocumentSizes :
       /\ w_doc = Document(n)
       /\ tb_rows = [i \in 1..n |-> i]
  /\ hasPager \in BOOLEAN
  /\ hasSearch \in BOOLEAN
  /\ heads_sort = AllUnsorted
  /\ pageSize = (IF hasPager THEN DEFAULT_SIZE ELSE 0)
  /\ filter = <<>>
  /\ searchInput_value = <<>>
  /\ timer_set = FALSE
  /\ LET r == renderPage(w_doc, tb_rows, DOMAIN w_doc, filter, 1, pageSize,
                         hasPager, FALSE, FALSE)
     IN  /\ visible = r.visible
         /\ shown = r.shown
         /\ emptyRow_shown = r.empty
         /\ page = r.page
         /\ prevBtn_disabled = r.prev
         /\ nextBtn_disabled = r.next

NextWidget ==
  \/ \E col \in WidgetColumns : sortBy(col)
  \/ \E text \in SearchTexts : SearchInput(text)
  \/ SearchTimeout
  \/ ClearSearch
  \/ \E value \in SizeOptions : SizeChange(value)
  \/ PrevClick
  \/ NextClick

\* one generated document and the events of its reader
SpecWidget == InitWidget /\ [][NextWidget]_vars

\* the embed tab with an empty table name, before or after Confirm & Save
InitTableName ==
  /\ MainIdle
  /\ HistIdle
  /\ BaseIdle
  /\ BarIdle
  /\ EscIdle
  /\ DraftIdle
  /\ WidgetIdle
  /\ tn_typed = <<>>
  /\ table_name_words = <<>>
  /\ tn_file_name = <<>>
  /\ tn_html_generated \in BOOLEAN
  /\ tn_can_publish = FALSE

NextTableName ==
  \/ \E ch \in NameChars : TypeNameChar(ch)
  \/ ClearTableName

\* the table name typed character by character
SpecTableName == InitTableName /\ [][NextTableName]_vars

\* uploads of files of either name and content, confirmations and
\* publish invocations
NextUpload ==
  \/ \E n \in CsvNames, d \in Data : UploadCSVFile(n, d)
  \/ ConfirmAndSave
  \/ \E w \in TableNameWords : EnterTableName(w)
  \/ ToggleOverwrite
  \/ ClickPublish
  \/ PublishStep

\* one session that uploads several files
SpecUpload == InitUpload /\ [][NextUpload]_vars

\* ---- a repository that already holds two pages
SwapTableNames == {"", "a", "b"}
SwapFileNames  == {"a.html", "b.html"}

\* a deployment with a personal token; the pages were published earlier
InitSwap ==
  /\ SecretsInit
  /\ GITHUB_PAT /\ ~app_installed
  /\ SessionInit
  /\ RenderedInit
  /\ repo_exists \in BOOLEAN
  /\ pages_enabled \in (IF repo_exists THEN BOOLEAN ELSE {FALSE})
  /\ gh_files = (IF repo_exists THEN [f \in SwapFileNames |-> OldHtml]
                                ELSE [f \in SwapFileNames |-> NoFile])
  /\ LocalsInit
  /\ BaseIdle
  /\ ExtraIdle

\* the embed tab with the table name edited between existing pages
NextSwap ==
  \/ \E d \in Data : UploadCSV("one.csv", d)
  \/ ConfirmAndSave
  \/ \E w \in SwapTableNames : EnterTableName(w)
  \/ ToggleOverwriteFor
  \/ ClickPublish
  \/ PublishStep

\* one session that renames the table before publishing
SpecSwap == InitSwap /\ [][NextSwap]_vars

NextColumn == GuessColumnType

\* guess_column_type applied to a column
SpecColumn == InitColumn /\ [][NextColumn]_vars

\* one call of wait_until_pages_live; the interpreter keeps executing it
SpecPoll == InitPoll /\ [][NextPoll]_vars /\ WF_vars(NextPoll)

\* ============================================================ properties
HasCall(k)    == \E i \in DOMAIN calls : calls[i].k = k
CountCalls(k) == Cardinality({i \in DOMAIN calls : calls[i].k = k})
CallOf(k)     == calls[CHOOSE i \in DOMAIN calls : calls[i].k = k]
LastCall      == calls[Len(calls)]

Rank(k) ==
  CASE k = "repoGET"   -> 1
    [] k = "repoPOST"  -> 2
    [] k = "pagesGET"  -> 3
    [] k = "pagesPOST" -> 4
    [] k = "fileGET"   -> 5
    [] k = "filePUT"   -> 6
    [] k = "url"       -> 7
    [] k = "poll"      -> 8

\* C1: a publish invocation runs only while bt_html_generated is true, and
\* the content of its contents PUT is the HTML the most recent
\* do_confirm_snapshot produced, never the rendering of the draft.
C1_PublishesOnlyConfirmedSnapshot ==
  /\ pc # "idle" => (bt_html_generated /\ html_final = snapshot_html)
  /\ HasCall("filePUT") =>
       /\ bt_html_generated
       /\ put_req.content = snapshot_html
       /\ put_req.content.kind = "table"

\* a PUT went through while the preview showed an edited draft
C1_Witness ==
  /\ HasCall("filePUT")
  /\ CallOf("filePUT").s \in {200, 201}
  /\ live_preview_html # put_req.content
  /\ gh_files[widget_file_name] = snapshot_html

\* C2: no contents PUT is made while the destination file exists and the
\* user has not opted into overwrite.
C2_NoPutOverExistingFileWithoutOptIn ==
  HasCall("filePUT") => ~(file_at_get # NoFile /\ ~bt_allow_swap)

\* C3: the calls of one invocation are made in the order repository GET,
\* create POST, hosting GET, enable POST, contents GET, contents PUT, URL
\* computation, polls; a POST only after its GET answered 404, the PUT only
\* after the repository check, a poll only after a successful PUT.
C3_CallsInOrder ==
  /\ \A i, j \in DOMAIN calls :
       i < j => \/ Rank(calls[i].k) < Rank(calls[j].k)
                \/ (calls[i].k = "poll" /\ calls[j].k = "poll")
  /\ calls # <<>> => calls[1].k = "repoGET"
  /\ HasCall("repoPOST") => CallOf("repoGET").s = 404
  /\ HasCall("pagesGET") => (repo_result \in {"exists", "created"})
  /\ HasCall("pagesPOST") => CallOf("pagesGET").s = 404
  /\ HasCall("fileGET") => HasCall("pagesGET")
  /\ HasCall("filePUT") => (HasCall("repoGET") /\ HasCall("fileGET"))
  /\ HasCall("url") => (HasCall("filePUT") /\ CallOf("filePUT").s \in {200, 201})
  /\ HasCall("poll") => HasCall("url")
  /\ pc # "idle" => LET r == IF calls = <<>> THEN 0 ELSE Rank(LastCall.k) IN
                      Rank(pc) > r \/ (pc = "poll" /\ r = 8)

\* an invocation that made every kind of call
C3_Witness ==
  /\ HasCall("repoPOST")
  /\ HasCall("pagesPOST")
  /\ HasCall("poll")
  /\ publish_result = "live"

\* C4: after a failure of ensure_repo_exists or upload_file_to_github the
\* invocation is over, the failed call is its last call, no call was made
\* twice, and bt_last_published_url and bt_iframe_code are as before the click.
C4_FailureAbortsAndKeepsResult ==
  /\ RepoFailed =>
       /\ pc = "idle"
       /\ publish_result = "error_repo"
       /\ LastCall.k \in {"repoGET", "repoPOST"}
       /\ \A k \in {"pagesGET", "pagesPOST", "fileGET", "filePUT", "url", "poll"} :
            ~HasCall(k)
  /\ UploadFailed =>
       /\ pc = "idle"
       /\ publish_result = "error_upload"
       /\ LastCall.k \in {"fileGET", "filePUT"}
       /\ ~HasCall("url") /\ ~HasCall("poll")
  /\ (RepoFailed \/ UploadFailed) =>
       /\ \A k \in {"repoGET", "repoPOST", "pagesGET", "pagesPOST", "fileGET",
                    "filePUT"} : CountCalls(k) <= 1
       /\ bt_last_published_url = pre_url
       /\ bt_iframe_code = pre_iframe

\* an upload failed in a session that had published before
C4_Witness ==
  /\ upload_result = "raise_upload"
  /\ pre_url # NoUrl
  /\ pre_iframe # NoIframe
  /\ bt_last_published_url = pre_url

\* C5: when ensure_pages_enabled raises, the contents PUT is not performed.
C5_PagesFailureStopsUpload ==
  PagesFailed => ~HasCall("filePUT")

\* C6: ensure_pages_enabled by the status of the hosting GET: 200 and 403
\* return without a POST, 404 issues one enable POST for (branch, "/") and
\* succeeds iff it answers 201 or 202, anything else raises without a POST.
C6_PagesDecisionTable ==
  /\ HasCall("pagesPOST") =>
       /\ CountCalls("pagesPOST") = 1
       /\ pages_req = [branch |-> "main", path |-> "/"]
       /\ pages_result # "none"
  /\ (HasCall("pagesGET") /\ pages_result = "none") =>
       (pc = "pagesPOST" /\ CallOf("pagesGET").s = 404)
  /\ pages_result # "none" =>
       LET g == CallOf("pagesGET").s IN
         /\ CountCalls("pagesGET") = 1
         /\ g \in {200, 403} => (~HasCall("pagesPOST") /\ pages_result = "ok")
         /\ g = 404 =>
              /\ HasCall("pagesPOST")
              /\ pages_result =
                   IF CallOf("pagesPOST").s \in {201, 202} THEN "ok" ELSE "raise_enable"
         /\ g \notin {200, 403, 404} =>
              (~HasCall("pagesPOST") /\ pages_result = "raise_check")

\* Pages was missing and the enable POST was accepted with 202
C6_Witness ==
  /\ pages_result = "ok"
  /\ CallOf("pagesGET").s = 404
  /\ CallOf("pagesPOST").s = 202
  /\ pages_enabled

\* C7 as stated: every 404 of the repository GET issues one create request.
C7_RepoDecisionTableAsStated ==
  repo_result # "none" =>
    LET g == CallOf("repoGET").s IN
      /\ g = 200 => (~HasCall("repoPOST") /\ repo_result = "exists")
      /\ g = 404 =>
           /\ CountCalls("repoPOST") = 1
           /\ create_req = [name |-> REPO_NAME, auto_init |-> TRUE, private |-> FALSE]
           /\ repo_result = "created" <=> CallOf("repoPOST").s \in {200, 201}
      /\ g \notin {200, 404} => (~HasCall("repoPOST") /\ repo_result = "raise_check")

\* C7 (amended): ensure_repo_exists by the status of the repository GET: 200
\* returns "not created" without a create request; 404 with a personal token
\* issues one create request for a public, auto-initialized repository and
\* returns "created" iff it answers 200/201; 404 without a personal token
\* raises without a create request; anything else raises a repo-check error
\* without a create request.
C7_RepoDecisionTable ==
  /\ (HasCall("repoGET") /\ repo_result = "none") =>
       (pc = "repoPOST" /\ CallOf("repoGET").s = 404 /\ GITHUB_PAT)
  /\ repo_result # "none" =>
       LET g == CallOf("repoGET").s IN
         /\ CountCalls("repoGET") = 1
         /\ g = 200 => (~HasCall("repoPOST") /\ repo_result = "exists")
         /\ (g = 404 /\ GITHUB_PAT) =>
              /\ CountCalls("repoPOST") = 1
              /\ create_req = [name |-> REPO_NAME, auto_init |-> TRUE, private |-> FALSE]
              /\ repo_result =
                   IF CallOf("repoPOST").s \in {200, 201} THEN "created"
                   ELSE "raise_create"
         /\ (g = 404 /\ ~GITHUB_PAT) =>
              (~HasCall("repoPOST") /\ repo_result = "raise_nopat")
         /\ g \notin {200, 404} =>
              (~HasCall("repoPOST") /\ repo_result = "raise_check")

\* the repository was missing and has been created
C7_Witness ==
  /\ repo_result = "created"
  /\ CallOf("repoGET").s = 404
  /\ create_req = [name |-> REPO_NAME, auto_init |-> TRUE, private |-> FALSE]
  /\ repo_exists

\* C8 as stated: after a 404 the create request is made, with the personal
\* token if there is one and with the installation token otherwise.
C8_CreateWithBestCredentialAsStated ==
  (HasCall("repoGET") /\ CallOf("repoGET").s = 404) =>
    \/ pc = "repoPOST"
    \/ /\ HasCall("repoPOST")
       /\ CallOf("repoPOST").tok = IF GITHUB_PAT THEN "pat" ELSE installation_token

\* C8 (amended): after a 404 the create request is made only with the
\* personal token; without one ensure_repo_exists raises and no create
\* request is made, whatever installation token is available.
C8_CreateOnlyWithPersonalToken ==
  /\ pc = "repoPOST" => GITHUB_PAT
  /\ HasCall("repoPOST") => (GITHUB_PAT /\ CallOf("repoPOST").tok = "pat")
  /\ (HasCall("repoGET") /\ CallOf("repoGET").s = 404) =>
       IF GITHUB_PAT
       THEN pc = "repoPOST" \/ HasCall("repoPOST")
       ELSE /\ ~HasCall("repoPOST")
            /\ repo_result = "raise_nopat"
            /\ publish_result = "error_repo"
            /\ ~repo_exists

\* no personal token, an installation token at hand, the repository missing
C8_Witness ==
  /\ ~GITHUB_PAT
  /\ installation_token = "inst"
  /\ HasCall("repoGET") /\ CallOf("repoGET").s = 404
  /\ repo_result = "raise_nopat"

\* C9: upload_file_to_github makes one contents GET and then at most one
\* PUT; the PUT carries a sha iff the GET answered 200 with a sha; a GET
\* answer other than 200/404 raises without a PUT; the upload succeeds iff
\* the PUT answers 200/201 and raises an upload error otherwise.
C9_UploadGetThenPut ==
  HasCall("fileGET") =>
    /\ CountCalls("fileGET") = 1
    /\ CountCalls("filePUT") <= 1
    /\ get_resp.status = CallOf("fileGET").s
    /\ get_resp.status \notin {200, 404} =>
         (~HasCall("filePUT") /\ pc # "filePUT"
          /\ upload_result \in {"raise_check", "raise_exc"})
    /\ (get_resp.status \in {200, 404} /\ ~HasCall("filePUT")) =>
         (pc = "filePUT" /\ upload_result = "none")
    /\ HasCall("filePUT") =>
         /\ get_resp.status \in {200, 404}
         /\ put_req.has_sha <=> (get_resp.status = 200 /\ get_resp.sha # NoSha)
         /\ put_req.has_sha => put_req.sha = get_resp.sha
         /\ put_req.path = widget_file_name
         /\ upload_result =
              IF CallOf("filePUT").s \in {200, 201} THEN "ok" ELSE "raise_upload"

\* an existing file was replaced by a PUT that carried its sha
C9_Witness ==
  /\ HasCall("filePUT")
  /\ put_req.has_sha
  /\ put_req.sha = [blob |-> OldHtml]
  /\ upload_result = "ok"

\* C10: if the destination file is no longer what it was at this
\* invocation's contents GET when its PUT is made, the PUT fails with an
\* upload error and the file stays as the other invocation left it.
C10_ConcurrentChangeFailsPut ==
  [][ (pc = "filePUT" /\ pc' # "filePUT"
       /\ gh_files[widget_file_name] # file_at_get)
      => (/\ upload_result' = "raise_upload"
          /\ publish_result' = "error_upload"
          /\ gh_files' = gh_files) ]_vars

\* the other session replaced the file between this GET and this PUT,
\* and this PUT was refused with 409
C10_Witness ==
  /\ HasCall("filePUT")
  /\ CallOf("filePUT").s = 409
  /\ file_at_get = OldHtml
  /\ gh_files[widget_file_name] = OtherHtml
  /\ upload_result = "raise_upload"

\* the provider answered this invocation's contents GET and PUT by the state
\* of the repository (no server error, no transport exception)
UploadAnswered ==
  /\ HasCall("fileGET") /\ HasCall("filePUT")
  /\ get_resp = [status |-> IF file_at_get = NoFile THEN 404 ELSE 200,
                 sha |-> IF file_at_get = NoFile THEN NoSha ELSE ShaOf(file_at_get)]
  /\ CallOf("filePUT").s # 500

\* C11: upload_file_to_github against an existing file, answered by the
\* provider, does not raise and leaves the file with the uploaded content;
\* this holds as well when the file already holds that content, which is
\* the second of two successive calls with the same content.
C11_UploadIdempotent ==
  (UploadAnswered /\ file_at_get # NoFile) =>
    /\ upload_result = "ok"
    /\ put_req.sha = ShaOf(file_at_get)
    /\ gh_files[widget_file_name] = html_final

\* the second upload of the same confirmed HTML: the file held it already
C11_Witness ==
  /\ UploadAnswered
  /\ html_final.kind = "table"
  /\ file_at_get = html_final
  /\ upload_result = "ok"
  /\ gh_files[widget_file_name] = html_final

\* C17: once the upload has succeeded, bt_last_published_url is the computed
\* public URL, before the poll and whatever the poll gives; the invocation
\* then ends "live" or "pending", never with an error; bt_iframe_code is the
\* snippet for that URL if the poll reported the page live and empty if the
\* poll timed out.
C17_UrlStoredWhateverThePoll ==
  /\ (HasCall("url") \/ pc = "poll" \/ publish_result \in {"live", "pending"}) =>
       /\ upload_result = "ok"
       /\ bt_last_published_url =
            compute_pages_url(PUBLISH_OWNER, REPO_NAME, widget_file_name)
  /\ (upload_result = "ok" /\ pc = "idle") => publish_result \in {"live", "pending"}
  /\ publish_result = "live" =>
       /\ LastCall = Call("poll", "", 200)
       /\ bt_iframe_code = build_iframe_snippet(bt_last_published_url)
       /\ bt_iframe_code # NoIframe
  /\ publish_result = "pending" =>
       /\ \A i \in DOMAIN calls : calls[i].k = "poll" => calls[i].s # 200
       /\ bt_iframe_code = NoIframe

\* the poll timed out in a session whose earlier publish had stored a
\* snippet: the URL is stored, the snippet is gone
C17_Witness ==
  /\ publish_result = "pending"
  /\ HasCall("poll")
  /\ pre_iframe # NoIframe
  /\ bt_last_published_url # NoUrl
  /\ bt_iframe_code = NoIframe

\* every API call of this invocation was answered without an error: a GET
\* with 200 or 404, a POST or PUT with a success status
ProviderCallsSucceeded ==
  \A i \in DOMAIN calls :
    /\ calls[i].k \in {"repoGET", "pagesGET", "fileGET"} => calls[i].s \in {200, 404}
    /\ calls[i].k \in {"repoPOST", "pagesPOST", "filePUT"} =>
         calls[i].s \in {200, 201, 202}

\* a publish invocation has run and is over
InvocationEnded == pc = "idle" /\ calls # <<>>

\* C12 as stated: a re-invocation after a failed invocation, every provider
\* call succeeding, ends with the repository existing, no create request
\* for a repository the failed invocation had created, and the destination
\* file holding the confirmed HTML.
C12_RetryAfterFailureAsStated ==
  (pre_failed /\ InvocationEnded /\ ProviderCallsSucceeded) =>
    /\ repo_exists
    /\ pre_created => ~HasCall("repoPOST")
    /\ gh_files[widget_file_name] = bt_html_code

\* C12 (amended): the same, provided a personal token is configured or the
\* repository already exists; without a personal token and without the
\* repository the re-invocation fails at the repository step again, with
\* no create request and no PUT.  A repository the failed invocation had
\* created is never created again.
C12_RetryAfterFailure ==
  /\ pre_created => (repo_exists /\ ~HasCall("repoPOST") /\ pc # "repoPOST")
  /\ (pre_failed /\ InvocationEnded /\ ProviderCallsSucceeded) =>
       IF GITHUB_PAT \/ CallOf("repoGET").s = 200
       THEN /\ repo_exists
            /\ publish_result \in {"live", "pending"}
            /\ html_final = bt_html_code
            /\ gh_files[widget_file_name] = bt_html_code
       ELSE /\ ~repo_exists
            /\ publish_result = "error_repo"
            /\ ~HasCall("repoPOST") /\ ~HasCall("filePUT")

\* the failed invocation had created the repository; the re-invocation
\* found it, made no create request and put the confirmed HTML in place
C12_Witness ==
  /\ pre_failed /\ pre_created
  /\ InvocationEnded /\ ProviderCallsSucceeded
  /\ CallOf("repoGET").s = 200
  /\ bt_html_code.kind = "table"
  /\ gh_files[widget_file_name] = bt_html_code

\* C13: with no personal token and without the app id or the private key,
\* the token acquisition sends no HTTP request and builds no JWT, the
\* existence check is not sent either, the publishing token is empty,
\* publishing is disabled and no publish invocation runs.
C13_NoCredentialsNoRequest ==
  (~GITHUB_PAT /\ ~(GITHUB_APP_ID /\ GITHUB_APP_PRIVATE_KEY)) =>
    /\ token_calls = <<>>
    /\ ~exists_checked
    /\ jwt = NoJwt
    /\ ~token_cache.set
    /\ installation_token = ""
    /\ ~can_publish
    /\ pc = "idle" /\ calls = <<>>

\* nothing is configured, the app is installed and the HTML is confirmed;
\* the embed tab has been rerun after the clock moved
C13_Witness ==
  /\ ~GITHUB_PAT /\ ~GITHUB_APP_ID /\ ~GITHUB_APP_PRIVATE_KEY
  /\ installation
  /\ bt_html_generated /\ widget_file_name # ""
  /\ token_at > 0
  /\ token_calls = <<>>
  /\ installation_token = ""
  /\ ~can_publish

\* C14: the JWT built when the clock shows now has iat = now - 30 and an
\* exp that is later than now and than iat, at most 600 seconds after now
\* and at most 600 seconds after iat.
C14_JwtWindow ==
  jwt # NoJwt =>
    /\ jwt.iat = jwt_now - 30
    /\ jwt.exp > jwt_now
    /\ jwt.exp > jwt.iat
    /\ jwt.exp - jwt_now <= 600
    /\ jwt.exp - jwt.iat <= 600

\* a JWT built later than at clock value 0, with its expiry ahead
C14_Witness ==
  /\ jwt # NoJwt
  /\ jwt_now > 30
  /\ jwt.iat = jwt_now - 30
  /\ jwt.exp = jwt_now + 540

\* C15: a call receives an installation token without an exchange only
\* while the cache entry is younger than 50 minutes; a call made when the
\* entry is 50 minutes old or older sends the requests of a fresh
\* exchange; no call receives a token that is 60 minutes old or older.
C15_CacheServesOnlyLiveTokens ==
  /\ installation_token = "inst" =>
       /\ token_at - token_issued < 60 * 60
       /\ token_cache = [set |-> TRUE, value |-> "inst", issued |-> token_issued,
                         stored |-> token_cache.stored]
       /\ IF token_calls = <<>>
          THEN token_at - token_cache.stored < 50 * 60
          ELSE token_cache.stored = token_at
  /\ (token_cache.set /\ token_at - token_cache.stored >= 50 * 60) =>
       token_calls # <<>>

\* a token served from the cache 49 minutes 59 seconds after it was stored
C15_Witness ==
  /\ installation_token = "inst"
  /\ token_calls = <<>>
  /\ token_at - token_cache.stored = 50 * 60 - 1
  /\ token_at - token_issued < 60 * 60

\* what wait_until_pages_live has returned, and after which requests
PollReturnsRight ==
  /\ wl_live = "none" <=> wl_pc # "done"
  /\ \A i \in DOMAIN wl_polls :
       wl_polls[i] = 200 => (i = Len(wl_polls) /\ wl_live = "True")
  /\ wl_live = "True" => (wl_polls # <<>> /\ wl_polls[Len(wl_polls)] = 200)
  /\ (wl_live = "False" /\ wl_url # NoUrl) => now >= wl_end
  /\ wl_url = NoUrl => (wl_polls = <<>> /\ wl_live \in {"none", "False"})
  /\ 2 * Len(wl_polls) <= wl_timeout + 1

\* C16: wait_until_pages_live returns: True at the first request answered
\* 200; False once the timeout has elapsed without a 200, an exception or
\* another status being a failed poll after which the loop goes on; False
\* without a request when the url is empty.  Each round moves the clock by
\* at least the interval, so there are at most (timeout + 1) / 2 requests.
C16_PollTerminates == []PollReturnsRight /\ <>(wl_pc = "done")

\* the loop went on after an exception and after a 404 and returned False
\* when the timeout had elapsed
C16_Witness ==
  /\ wl_pc = "done"
  /\ wl_live = "False"
  /\ wl_url # NoUrl
  /\ Len(wl_polls) >= 3
  /\ wl_polls[1] = 0
  /\ wl_polls[2] = 404
  /\ now >= wl_end

\* the name the naming convention gives: what is put between the brand's
\* prefix and the month's letter, then the year's last two digits
NameByConvention(brand, between, year, month) ==
  BrandPrefix(Strip(brand)) \o between
    \o <<"j", "f", "m", "a", "y", "u", "l", "g", "s", "o", "n", "d">>[month]
    \o DigitChar((year % 100) \div 10) \o DigitChar(year % 10)

CalledMonthLater ==
  /\ name_prev # NoName
  /\ name_last # NoName
  /\ \/ /\ name_prev.month < 12
        /\ name_last.month = name_prev.month + 1
        /\ name_last.year = name_prev.year
     \/ /\ name_prev.month = 12
        /\ name_last.month = 1
        /\ name_last.year = name_prev.year + 1

\* C19: two calls for the same brand in the same UTC month of the same year
\* return the same name, whatever the day; a call in the following UTC
\* month, January after December included, returns a different name, which
\* carries the following month's letter.
C19_NameFollowsTheMonth ==
  /\ (/\ name_prev # NoName
      /\ name_last # NoName
      /\ name_prev.year = name_last.year
      /\ name_prev.month = name_last.month) => name_prev.name = name_last.name
  /\ CalledMonthLater =>
       /\ name_last.name # name_prev.name
       /\ name_last.name =
            BrandPrefix(Strip(brand_table)) \o "t"
              \o MonthCode(IF name_prev.month = 12 THEN 1
                           ELSE name_prev.month + 1)
              \o YearSuffix(name_last.year)

\* a call in December and the next one in January of the year after, and two
\* different names
C19_Witness ==
  /\ name_prev # NoName
  /\ name_prev.month = 12
  /\ name_last.month = 1
  /\ name_last.year = name_prev.year + 1
  /\ name_last.day = 1
  /\ name_prev.day = MaxDay
  /\ name_last.name # name_prev.name

\* the non-null cells the function looks at, and how many of them parse as
\* numbers once the characters other than digits, "." and "-" are removed
SampledCells == HeadOf(DropNa(series.cells), SAMPLE_SIZE)

ParsingCells ==
  Cardinality({i \in DOMAIN SampledCells :
                 FloatParses(Cleaned(AsStr(SampledCells[i])))})

\* C20 as stated: a column of non-numeric dtype is numeric if and only if
\* the cells of the sample that parse as numbers are at least half of the
\* sample and at least 3; it is text otherwise.
C20_NumericIffHalfAsStated ==
  (col_type # "none" /\ ~series.numeric) =>
    /\ col_type \in {"num", "text"}
    /\ col_type = "num" <=>
         (2 * ParsingCells >= Len(SampledCells) /\ ParsingCells >= MIN_NUMERIC)

\* C20: a column of non-numeric dtype is numeric if and only if, among its
\* first up to 20 non-null values taken as strings, the number that parse as
\* numbers once every character other than digits, "." and "-" is removed
\* is at least half of the sample rounded down and at least 3; it is text
\* otherwise, an empty sample included.
C20_NumericIffHalfRoundedDown ==
  (col_type # "none" /\ ~series.numeric) =>
    /\ col_type \in {"num", "text"}
    /\ col_type = "num" <=>
         /\ ParsingCells >= Len(SampledCells) \div 2
         /\ ParsingCells >= MIN_NUMERIC
    /\ SampledCells = <<>> => col_type = "text"

\* a sample of seven values of which three parse: numeric, with less than
\* half of the sample
C20_Witness ==
  /\ ~series.numeric
  /\ col_type = "num"
  /\ Len(SampledCells) = 7
  /\ ParsingCells = 3

\* the denominator of the bars as the text typed and the column give it
BarOverrideGiven ==
  LET t == RStrip(LStrip(bar_typed))
  IN  StrictFloatParses(t) /\ FloatValue(t) > 0

BarColumnMax ==
  CHOOSE m \in {parse_number(bar_series.cells[i]) : i \in DOMAIN bar_series.cells} :
    \A i \in DOMAIN bar_series.cells : parse_number(bar_series.cells[i]) <= m

BarDenominator ==
  IF BarOverrideGiven THEN FloatValue(RStrip(LStrip(bar_typed)))
  ELSE IF bar_series.cells # <<>> /\ BarColumnMax > 0 THEN BarColumnMax
       ELSE ONE

RECURSIVE GCD(_, _)
GCD(a, b) == IF b = 0 THEN a ELSE GCD(b, a % b)

\* a fraction with a positive numerator, in lowest terms
Lowest(r) == [num |-> r.num \div GCD(r.num, r.den),
              den |-> r.den \div GCD(r.num, r.den)]

\* C21: the denominator of a bar column is the override when one is given
\* and positive, otherwise the column's maximum parsed value, otherwise 1
\* when that maximum is not positive or unavailable; it is strictly
\* positive, and the fill of every cell v is clamp(v / D * 100, 0, 100),
\* which lies in [0, 100].
C21_FillIsClampedShare ==
  /\ bar_max = BarDenominator
  /\ bar_max > 0
  /\ guess_column_type(bar_series) = "num" =>
       Len(bar_fills) = Len(bar_series.cells)
  /\ \A i \in DOMAIN bar_fills :
       LET v == parse_number(bar_series.cells[i])
           f == bar_fills[i]
       IN  /\ f.den > 0
           /\ 0 <= f.num /\ f.num <= 100 * f.den
           /\ v <= 0 => f.num = 0
           /\ v >= bar_max => f.num = 100 * f.den
           /\ (0 < v /\ v < bar_max) =>
                Lowest(f) = Lowest([num |-> v * 100, den |-> bar_max])

\* override 100: the cell 150 is filled to 100, the cell -10 to 0
C21_Witness ==
  /\ bar_override = [set |-> TRUE, value |-> 100 * ONE]
  /\ \E i, j \in DOMAIN bar_fills :
       /\ bar_series.cells[i] = IntCell(150)
       /\ bar_fills[i] = Rat(100)
       /\ bar_series.cells[j] = IntCell(-10)
       /\ bar_fills[j] = Rat(0)

\* the entities html.escape writes, without their "&"
EntityTails ==
  { <<"a", "m", "p", ";">>, <<"l", "t", ";">>, <<"g", "t", ";">>,
    <<"q", "u", "o", "t", ";">>, <<"#", "x", "2", "7", ";">> }

\* position i of the text holds a raw markup character: "<", the quote, or
\* an "&" that does not start an entity
RawMarkupAt(text, i) ==
  \/ text[i] \in {"<", "\""}
  \/ /\ text[i] = "&"
     /\ ~ \E e \in EntityTails :
            /\ i + Len(e) <= Len(text)
            /\ SubSeq(text, i + 1, i + Len(e)) = e

IsInfix(part, text) ==
  \E k \in 0..(Len(text) - Len(part)) : SubSeq(text, k + 1, k + Len(part)) = part

HasPlaceholder(text) == \E i \in DOMAIN text : text[i] \in Placeholders

\* what the character-wise escaping of a text is
EscapedForm(text) ==
  LET E(ch) == CASE ch = "&"  -> <<"&", "a", "m", "p", ";">>
                 [] ch = "<"  -> <<"&", "l", "t", ";">>
                 [] ch = ">"  -> <<"&", "g", "t", ";">>
                 [] ch = "\"" -> <<"&", "q", "u", "o", "t", ";">>
                 [] OTHER     -> <<ch>>
      F[i \in 0..Len(text)] == IF i = 0 THEN <<>> ELSE F[i - 1] \o E(text[i])
  IN  F[Len(text)]

\* C22: the generated document holds no raw "<", "&" or quote character of
\* the title, the subtitle, a column header or a cell value; where such a
\* text is embedded the document holds its escaped form.
C22_TextsAreEscaped ==
  /\ \A i \in DOMAIN esc_html : ~RawMarkupAt(esc_html, i)
  /\ ~HasPlaceholder(esc_title) =>
       IsInfix(<<"<title>">> \o EscapedForm(esc_title) \o <<"</title>">>, esc_html)
  /\ ~HasPlaceholder(esc_subtitle) =>
       IsInfix(<<"<span class=subtitle>">> \o EscapedForm(esc_subtitle)
                 \o <<"</span>">>, esc_html)
  /\ ~HasPlaceholder(format_column_header(esc_header, esc_style)) =>
       IsInfix(<<"<th>">>
                 \o EscapedForm(format_column_header(esc_header, esc_style))
                 \o <<"</th>">>, esc_html)
  /\ ~HasPlaceholder(esc_cell) =>
       IsInfix(<<"<tr><td><div title=\"">> \o EscapedForm(esc_cell) \o <<"\">">>
                 \o EscapedForm(esc_cell) \o <<"</div></td></tr>">>, esc_html)

\* a document with markup in the cell, a quote in the title, an ampersand
\* in the header and a placeholder in the subtitle
C22_Witness ==
  /\ esc_cell = <<"<", "b", ">">>
  /\ esc_title = <<"\"">>
  /\ esc_header = <<"&">>
  /\ esc_subtitle = <<"[[FOOTER_NOTES_HTML]]">>
  /\ esc_notes = <<"*", "*", "<", "*", "*">>
  /\ IsInfix(<<"&", "l", "t", ";", "b", "&", "g", "t", ";">>, esc_html)

\* C23: once do_confirm_snapshot has run, bt_confirmed_cfg, bt_confirmed_hash
\* and bt_html_code are what that call stored, whatever draft setting
\* (title, toggles, bar columns, per-column maxima) is edited afterwards,
\* until the next do_confirm_snapshot.
C23_ConfirmedIsFrozen ==
  snapshot_taken =>
    /\ CfgValue(confirmed_cfg, heap) = snap.cfg
    /\ bt_confirmed_hash = snap.hash
    /\ html_code = snap.html

\* C24: after every upload of a CSV, whatever the file's name, the
\* session's dataset bt_df_uploaded is the content of the file that was
\* uploaded last, as a whole.
C24_DatasetIsTheLastUpload ==
  bt_uploaded_name # "" => bt_df_uploaded = df_uploaded_now

\* C25: an overwrite opt-in given while one destination file name was entered
\* never authorises overwriting a different existing destination: whenever
\* the publish button is enabled for a file the run saw in the repository,
\* the opt-in in force was given while that very file name was entered.
C25_OptInIsForTheFileOnScreen ==
  (can_publish /\ file_exists) =>
     swap_given_for = WidgetFileName(bt_table_name_words)

\* the session's HTML is empty or rendered from the session's dataset; it
\* is empty exactly when bt_html_generated is false, and then publishing is
\* disabled; what a publish invocation uploads is rendered from the dataset
HtmlIsOfTheDataset ==
  /\ bt_html_generated <=> bt_html_code # EmptyStr
  /\ ~bt_html_generated => ~can_publish
  /\ bt_html_code # EmptyStr =>
       (bt_html_code.kind = "table" /\ bt_html_code.df = bt_df_uploaded)
  /\ pc # "idle" =>
       (html_final.kind = "table" /\ html_final.df = bt_df_uploaded)
  /\ put_req # NoReq => put_req.content.df = bt_df_uploaded

\* C26: the upload of a CSV with a different file name empties bt_html_code
\* and clears bt_html_generated, so that publishing is disabled until
\* Confirm & Save runs again; HTML rendered from the dataset before is
\* never uploaded after the new upload.
C26_NewUploadDropsTheHtml ==
  /\ []HtmlIsOfTheDataset
  /\ [][ bt_uploaded_name' # bt_uploaded_name =>
           (/\ bt_html_code' = EmptyStr
            /\ ~bt_html_generated'
            /\ ~can_publish') ]_vars

\* a page rendered from one dataset was published, then another file was
\* uploaded: no HTML, publishing disabled
C26_Witness ==
  /\ gh_files["a.html"].kind = "table"
  /\ gh_files["a.html"].df # bt_df_uploaded
  /\ bt_uploaded_name = "two.csv"
  /\ bt_table_name_words = "a"
  /\ bt_html_code = EmptyStr
  /\ ~bt_html_generated
  /\ ~can_publish

\* the rows of the last render on the page shown: positions
\* (page-1)*pageSize+1 .. page*pageSize of the matching rows
RowsOfPage ==
  {visible[i] : i \in {j \in DOMAIN visible :
                         (page - 1) * pageSize < j /\ j <= page * pageSize}}

\* the matching rows keep the order the rows have in the table body
InCurrentOrder ==
  visible = SelectSeq(tb_rows, LAMBDA r : \E i \in DOMAIN visible : visible[i] = r)

LastPage == (Len(visible) + pageSize - 1) \div pageSize

SortCycle == [none |-> "asc", asc |-> "desc", desc |-> "none"]

DocumentOrder == [i \in DOMAIN w_doc |-> i]

\* C28: repeated activation of one column header cycles its sort state
\* none -> asc -> desc -> none; at every moment at most one header is in a
\* sorted state; and whenever no header is sorted the rows are in their
\* original order of the rendered document.
C28_SortCycles ==
  /\ [](Cardinality({col \in WidgetColumns : heads_sort[col] # "none"}) <= 1)
  /\ []((heads_sort = AllUnsorted) => (tb_rows = DocumentOrder))
  /\ [][ \A col \in WidgetColumns :
           sortBy(col) =>
             /\ heads_sort'[col] = SortCycle[heads_sort[col]]
             /\ \A other_col \in WidgetColumns \ {col} :
                  heads_sort'[other_col] = "none" ]_vars

\* the second activation of the numeric header: descending, rows reordered
C28_Witness ==
  /\ heads_sort[2] = "desc" /\ heads_sort[1] = "none"
  /\ Len(tb_rows) = MaxRows
  /\ tb_rows # DocumentOrder

\* C29: after every render a data row is displayed only if it matches the
\* current search filter, the "No Matches Found" row is displayed if and
\* only if no data row matches, and with the pager hidden or page size All
\* every matching row is displayed.
C29_DisplayedIffMatching ==
  LET Matching == {r \in DOMAIN w_doc : matchesFilter(w_doc[r], r \in shown, filter)}
  IN  /\ shown \subseteq Matching
      /\ emptyRow_shown <=> (Matching = {})
      /\ (~hasPager \/ pageSize = ALL_ROWS) => (Matching \subseteq shown)

\* the stem of a file name: what precedes the last five characters
StemOf(file) == SubSeq(file, 1, Len(file) - 5)

StemChars == {"a", "b", "7", "-", "_"}

\* C30: for every non-empty table name (the text of the field without the
\* white space around it) the derived file name is a non-empty stem followed
\* by ".html"; the stem holds only lower-case letters, digits, "-" and "_",
\* neither starts nor ends with "-", holds no "/" and no ".", and is "table"
\* when the name has no letter, digit or "_"; an empty table name gives an
\* empty file name and keeps publishing disabled.
C30_FileNameIsSafe ==
  IF table_name_words = <<>>
  THEN tn_file_name = <<>> /\ ~tn_can_publish
  ELSE LET stem == StemOf(tn_file_name) IN
       /\ Len(tn_file_name) > 5
       /\ SubSeq(tn_file_name, Len(tn_file_name) - 4, Len(tn_file_name))
            = <<".", "h", "t", "m", "l">>
       /\ \A i \in DOMAIN stem : stem[i] \in StemChars \cup {"t", "l", "e"}
       /\ \A i \in DOMAIN stem : stem[i] \notin {"/", "."}
       /\ stem[1] # "-"
       /\ stem[Len(stem)] # "-"
       /\ (\A i \in DOMAIN table_name_words :
             table_name_words[i] \notin {"A", "b", "7", "_"})
            => stem = <<"t", "a", "b", "l", "e">>
       /\ (\E i \in DOMAIN table_name_words :
             table_name_words[i] \in {"A", "b", "7", "_"})
            => \A i \in DOMAIN stem : stem[i] \in StemChars

\* "-A b" after Confirm & Save: the dash at the start is gone, the space is
\* a dash, the letter is lower case
C30_Witness ==
  /\ tn_typed = <<"-", "A", " ", "b">>
  /\ tn_file_name = <<"a", "-", "b", ".", "h", "t", "m", "l">>
  /\ tn_html_generated
  /\ tn_can_publish

====
